---- MODULE Spec2Model ----
(***************************************************************************)
(* The OAuth2 / OpenID Connect authorization endpoint of authentik:        *)
(* OAuthAuthorizationParams (parsing and validation of the request),       *)
(* AuthorizationFlowInitView (the init handler) and OAuthFulfillmentStage  *)
(* (the terminal stage that mints the code / tokens and builds the         *)
(* response), from authentik/providers/oauth2/views/authorize.py.          *)
(*                                                                         *)
(* Strings that the code takes apart (URIs, regular expressions, the       *)
(* space-separated scope and prompt lists) are sequences of tokens; all    *)
(* other strings are TLA+ strings.  A query dictionary is a function whose *)
(* DOMAIN is the set of keys that are present.                             *)
(***************************************************************************)
EXTENDS Integers, Sequences, FiniteSets, TLC

VARIABLES
    redirect_uris,  \* DB: provider (by client_id) -> its allow-list (OAuth2Provider.redirect_uris)
    session,        \* the browser session: user, login event, last_login_uid
    request,        \* the authorization request being handled (NoRequest before it arrives)
    params,         \* AuthorizationFlowInitView.params / OAuthFulfillmentStage.params
    response,       \* the last HTTP response sent to the browser
    plan,           \* the flow plan held by the flow executor for this session
    codes,          \* DB: saved AuthorizationCode rows
    tokens,         \* DB: saved AccessToken rows
    events,         \* audit events emitted
    uuids,          \* number of random identifiers drawn so far
    inflight        \* requests inside __post_init__ at the same time, each with its provider object

vars == <<redirect_uris, session, request, params, response, plan, codes, tokens, events, uuids,
         inflight>>

-----------------------------------------------------------------------------
(* Bounds of the model *)

\* A request differs from the baseline request in at most this many parameters.
MaxDeviations == 2
\* Login events that can be created in one session.
MaxLogins == 2
\* The clock: seconds that can pass after a login event was created.
MaxClock == 2
\* Requests that are validated at the same time.
MaxRacers == 2

-----------------------------------------------------------------------------
(* Python values *)

NoneVal == "<None>"      \* None, where the other values are strings
FalseVal == "<False>"    \* False, the default of query_dict.get("response_mode", False)
NoInt == <<>>            \* None, where the other values are integers <<n>>
EmptyStr == <<>>         \* "" for a tokenised string
EmptyDict == <<>>        \* {}

Range(seq) == {seq[i] : i \in DOMAIN seq}

\* dict.get(key, default)
Get(dict, key, default) == IF key \in DOMAIN dict THEN dict[key] ELSE default

\* dict[key] = value
Put(dict, key, value) ==
    [k \in DOMAIN dict \cup {key} |-> IF k = key THEN value ELSE dict[k]]

\* del dict[key] / dict.pop(key)
Del(dict, key) == [k \in DOMAIN dict \ {key} |-> dict[k]]

\* Truthiness of a string-or-None value: None and "" are falsy.
Truthy(v) == v # NoneVal /\ v # ""

-----------------------------------------------------------------------------
(* Constants of authentik.providers.oauth2 *)

PROMPT_NONE == "none"
PROMPT_CONSENT == "consent"
PROMPT_LOGIN == "login"
SCOPE_OPENID == "openid"
SCOPE_OFFLINE_ACCESS == "offline_access"
SCOPE_GITHUB == {"user", "read:user", "user:email", "read:org"}
PKCE_METHOD_PLAIN == "plain"
PKCE_METHOD_S256 == "S256"
TOKEN_TYPE == "Bearer"

ALLOWED_PROMPT_PARAMS == {PROMPT_NONE, PROMPT_CONSENT, PROMPT_LOGIN}
FORBIDDEN_URI_SCHEMES == {"javascript", "data", "vbscript"}

PLAN_CONTEXT_PARAMS == "goauthentik.io/providers/oauth2/params"
PLAN_CONTEXT_APPLICATION == "application"

\* ResponseTypes
RT_CODE == "code"
RT_ID_TOKEN == "id_token"
RT_ID_TOKEN_TOKEN == "id_token token"
RT_CODE_TOKEN == "code token"
RT_CODE_ID_TOKEN == "code id_token"
RT_CODE_ID_TOKEN_TOKEN == "code id_token token"

\* GrantTypes
AUTHORIZATION_CODE == "authorization_code"
IMPLICIT == "implicit"
HYBRID == "hybrid"

\* ResponseMode
QUERY == "query"
FRAGMENT == "fragment"
FORM_POST == "form_post"
ResponseModeValues == {QUERY, FRAGMENT, FORM_POST}

\* RedirectURIMatchingMode
STRICT == "strict"
REGEX == "regex"

RedirectURI(matching_mode, url) == [matching_mode |-> matching_mode, url |-> url]

-----------------------------------------------------------------------------
(* URIs and regular expressions, as token sequences *)

Wild == ".*"         \* the regular expression .*
BadParen == "("      \* an unbalanced parenthesis: re.error when the pattern is compiled

UriOk == <<"https", ":", "rp.example", "/cb">>
UriUs == <<"https", ":", "us.rp.example", "/cb">>
UriUsTail == <<"https", ":", "us.rp.example", "/cb", "/evil">>
UriHttp == <<"http", ":", "x">>
UriJs == <<"javascript", ":", "alert(1)">>
UriJsUpper == <<"JavaScript", ":", "alert(1)">>

\* str.lower() of the scheme tokens used here
Lower(s) == IF s = "JavaScript" THEN "javascript" ELSE s

SchemeTokens == {"https", "http", "javascript", "JavaScript", "data", "vbscript"}

\* urlparse(uri).scheme: the text before the first ":", lower-cased, when it is
\* a valid scheme name; "" otherwise.
UrlScheme(uri) ==
    IF Len(uri) >= 2 /\ uri[2] = ":" /\ uri[1] \in SchemeTokens
    THEN Lower(uri[1])
    ELSE ""

\* re.compile raises re.error
RegexError(pattern) == \E i \in DOMAIN pattern : pattern[i] = BadParen

\* re.fullmatch(pattern, string) is not None, for a pattern that compiles
RECURSIVE fullmatch(_, _)
fullmatch(pattern, string) ==
    IF pattern = <<>> THEN string = <<>>
    ELSE IF Head(pattern) = Wild
    THEN \/ fullmatch(Tail(pattern), string)
         \/ (string # <<>> /\ fullmatch(pattern, Tail(string)))
    ELSE /\ string # <<>>
         /\ Head(string) = Head(pattern)
         /\ fullmatch(Tail(pattern), Tail(string))

-----------------------------------------------------------------------------
(* The providers in the database *)

Providers == {"CID", "FRESH", "JS"}

\* OAuth2Provider.redirect_uris as configured
ConfiguredRedirectUris ==
    [CID |-> << RedirectURI(REGEX, <<"https", ":", BadParen>>),
                RedirectURI(STRICT, <<"http", ":", Wild>>),
                RedirectURI(STRICT, UriOk),
                RedirectURI(REGEX, <<"https", ":", Wild, "/cb">>) >>,
     FRESH |-> << >>,
     JS  |-> << RedirectURI(STRICT, UriJs),
                RedirectURI(REGEX, <<"JavaScript", ":", Wild>>),
                RedirectURI(STRICT, UriOk) >>]

\* ScopeMapping.objects.filter(provider__in=[provider]).values_list("scope_name")
ScopeMappings ==
    [CID |-> {SCOPE_OPENID, SCOPE_OFFLINE_ACCESS, "profile"},
     FRESH |-> {SCOPE_OFFLINE_ACCESS, "profile"},
     JS  |-> {SCOPE_OPENID}]

-----------------------------------------------------------------------------
(* Errors (authentik.providers.oauth2.errors) *)

NoError ==
    [cls |-> "", error |-> "", cause |-> "",
     redirect_uri |-> EmptyStr, grant_type |-> "", state |-> NoneVal]

\* ClientIdError(client_id=...)
ClientIdError ==
    [NoError EXCEPT !.cls = "ClientIdError", !.error = "unauthorized_client"]

\* RedirectUriError(provided_uri, allowed_uris).with_cause(cause)
RedirectUriError(provided_uri, cause) ==
    [NoError EXCEPT !.cls = "RedirectUriError", !.error = "invalid_request",
                    !.cause = cause, !.redirect_uri = provided_uri]

\* AuthorizeError(redirect_uri, error, grant_type, state).with_cause(cause)
AuthorizeError(uri, error, grant_type, state, cause) ==
    [cls |-> "AuthorizeError", error |-> error, cause |-> cause,
     redirect_uri |-> uri, grant_type |-> grant_type, state |-> state]

-----------------------------------------------------------------------------
(* OAuthAuthorizationParams *)

NoParams == [client_id |-> NoneVal]

\* int(max_age) for the decimal strings used here
IntOf(s) == CASE s = "0" -> 0 [] s = "1" -> 1 [] s = "2" -> 2 [] s = "3" -> 3

\* OAuthAuthorizationParams.from_request: the fields read from the query
\* dictionary, before __post_init__ runs.
from_request(req) ==
    LET query_dict == IF req.method = "POST" THEN req.POST ELSE req.GET
        max_age == Get(query_dict, "max_age", NoneVal)
    IN  [client_id |-> Get(query_dict, "client_id", ""),
         redirect_uri |-> Get(query_dict, "redirect_uri", EmptyStr),
         response_type |-> Get(query_dict, "response_type", ""),
         response_mode |-> Get(query_dict, "response_mode", FalseVal),
         grant_type |-> "",
         scope |-> Range(Get(query_dict, "scope", <<>>)),
         state |-> Get(query_dict, "state", NoneVal),
         nonce |-> Get(query_dict, "nonce", NoneVal),
         prompt |-> ALLOWED_PROMPT_PARAMS \cap Range(Get(query_dict, "prompt", <<>>)),
         request |-> Get(query_dict, "request", NoneVal),
         max_age |-> IF Truthy(max_age) THEN <<IntOf(max_age)>> ELSE NoInt,
         code_challenge |-> Get(query_dict, "code_challenge", NoneVal),
         code_challenge_method |-> Get(query_dict, "code_challenge_method", "plain"),
         provider |-> NoneVal]

\* Mutant of match_found: a malformed regular expression ends the loop.
RECURSIVE match_found_regex_error_fatal(_, _)
match_found_regex_error_fatal(allowed_redirect_urls, uri) ==
    IF allowed_redirect_urls = <<>> THEN FALSE
    ELSE LET allowed == Head(allowed_redirect_urls)
         IN  IF allowed.matching_mode = STRICT /\ uri = allowed.url THEN TRUE
             ELSE IF allowed.matching_mode = REGEX /\ RegexError(allowed.url) THEN FALSE
             ELSE IF allowed.matching_mode = REGEX /\ fullmatch(allowed.url, uri)
             THEN TRUE
             ELSE match_found_regex_error_fatal(Tail(allowed_redirect_urls), uri)

\* The loop of check_redirect_uri over the allow-list
RECURSIVE match_found(_, _)
match_found(allowed_redirect_urls, uri) ==
    IF allowed_redirect_urls = <<>> THEN FALSE
    ELSE LET allowed == Head(allowed_redirect_urls)
         IN  IF allowed.matching_mode = STRICT /\ uri = allowed.url THEN TRUE
             ELSE IF /\ allowed.matching_mode = REGEX
                     /\ ~RegexError(allowed.url)
                     /\ fullmatch(allowed.url, uri)
             THEN TRUE
             ELSE match_found(Tail(allowed_redirect_urls), uri)

\* Mutant of check_redirect_uri: the scheme is checked before the allow-list.
check_redirect_uri_scheme_first(self, provider_uris) ==
    IF self.redirect_uri = EmptyStr
    THEN [error |-> RedirectUriError(EmptyStr, "redirect_uri_missing"),
          redirect_uris |-> provider_uris]
    ELSE
    LET allowed_redirect_urls ==
            IF Len(provider_uris) < 1
            THEN << RedirectURI(STRICT, self.redirect_uri) >>
            ELSE provider_uris
    IN  IF UrlScheme(self.redirect_uri) \in FORBIDDEN_URI_SCHEMES
        THEN [error |-> RedirectUriError(self.redirect_uri, "redirect_uri_forbidden_scheme"),
              redirect_uris |-> allowed_redirect_urls]
        ELSE IF ~match_found(allowed_redirect_urls, self.redirect_uri)
        THEN [error |-> RedirectUriError(self.redirect_uri, "redirect_uri_no_match"),
              redirect_uris |-> allowed_redirect_urls]
        ELSE [error |-> NoError, redirect_uris |-> allowed_redirect_urls]

\* Mutant of check_redirect_uri: the allow-list is auto-provisioned whenever it
\* does not match the redirect_uri.
check_redirect_uri_provision_unmatched(self, provider_uris) ==
    IF self.redirect_uri = EmptyStr
    THEN [error |-> RedirectUriError(EmptyStr, "redirect_uri_missing"),
          redirect_uris |-> provider_uris]
    ELSE
    LET allowed_redirect_urls ==
            IF ~match_found(provider_uris, self.redirect_uri)
            THEN << RedirectURI(STRICT, self.redirect_uri) >>
            ELSE provider_uris
    IN  IF ~match_found(allowed_redirect_urls, self.redirect_uri)
        THEN [error |-> RedirectUriError(self.redirect_uri, "redirect_uri_no_match"),
              redirect_uris |-> allowed_redirect_urls]
        ELSE IF UrlScheme(self.redirect_uri) \in FORBIDDEN_URI_SCHEMES
        THEN [error |-> RedirectUriError(self.redirect_uri, "redirect_uri_forbidden_scheme"),
              redirect_uris |-> allowed_redirect_urls]
        ELSE [error |-> NoError, redirect_uris |-> allowed_redirect_urls]

\* check_redirect_uri: the error raised (NoError when it returns) and the
\* provider's allow-list as it is saved when the check ends.
check_redirect_uri(self, provider_uris) ==
    IF self.redirect_uri = EmptyStr
    THEN [error |-> RedirectUriError(EmptyStr, "redirect_uri_missing"),
          redirect_uris |-> provider_uris]
    ELSE
    LET allowed_redirect_urls ==
            IF Len(provider_uris) < 1
            THEN << RedirectURI(STRICT, self.redirect_uri) >>
            ELSE provider_uris
    IN  IF ~match_found(allowed_redirect_urls, self.redirect_uri)
        THEN [error |-> RedirectUriError(self.redirect_uri, "redirect_uri_no_match"),
              redirect_uris |-> allowed_redirect_urls]
        ELSE IF UrlScheme(self.redirect_uri) \in FORBIDDEN_URI_SCHEMES
        THEN [error |-> RedirectUriError(self.redirect_uri, "redirect_uri_forbidden_scheme"),
              redirect_uris |-> allowed_redirect_urls]
        ELSE [error |-> NoError, redirect_uris |-> allowed_redirect_urls]

\* Mutant of GrantOf: "code token" is taken for the authorization code grant.
GrantOf_code_token_as_code(response_type) ==
    IF response_type \in {RT_CODE, RT_CODE_TOKEN} THEN AUTHORIZATION_CODE
    ELSE IF response_type \in {RT_ID_TOKEN, RT_ID_TOKEN_TOKEN} THEN IMPLICIT
    ELSE IF response_type \in {RT_CODE_ID_TOKEN, RT_CODE_ID_TOKEN_TOKEN}
    THEN HYBRID
    ELSE ""

\* check_grant: the response_type to grant_type mapping
GrantOf(response_type) ==
    IF response_type \in {RT_CODE} THEN AUTHORIZATION_CODE
    ELSE IF response_type \in {RT_ID_TOKEN, RT_ID_TOKEN_TOKEN} THEN IMPLICIT
    ELSE IF response_type \in {RT_CODE_TOKEN, RT_CODE_ID_TOKEN, RT_CODE_ID_TOKEN_TOKEN}
    THEN HYBRID
    ELSE ""

\* Mutant of DefaultResponseMode: the fragment default applies to implicit only.
DefaultResponseMode_implicit_only(grant_type) ==
    IF grant_type \in {IMPLICIT} THEN FRAGMENT ELSE QUERY

\* check_grant: the default response mode of a grant
DefaultResponseMode(grant_type) ==
    IF grant_type \in {IMPLICIT, HYBRID} THEN FRAGMENT ELSE QUERY

check_grant(self) ==
    LET grant_type == IF GrantOf(self.response_type) # ""
                      THEN GrantOf(self.response_type)
                      ELSE self.grant_type
    IN  IF grant_type = ""
        THEN [self |-> self,
              error |-> AuthorizeError(self.redirect_uri, "unsupported_response_type",
                                       "", self.state, "")]
        ELSE [self |-> [self EXCEPT
                          !.grant_type = grant_type,
                          !.response_mode =
                              IF self.response_mode \notin ResponseModeValues
                              THEN DefaultResponseMode(grant_type)
                              ELSE self.response_mode],
              error |-> NoError]

\* check_scope: the response types that produce an authorization code
\* Mutant of CodeResponseTypes: every response type counts as returning a code.
CodeResponseTypes_every_type ==
    {RT_CODE, RT_CODE_TOKEN, RT_CODE_ID_TOKEN, RT_CODE_ID_TOKEN_TOKEN,
     RT_ID_TOKEN, RT_ID_TOKEN_TOKEN}

CodeResponseTypes ==
    {RT_CODE, RT_CODE_TOKEN, RT_CODE_ID_TOKEN, RT_CODE_ID_TOKEN_TOKEN}

\* Mutant of check_scope: the requested scopes are not cut to the configured ones.
check_scope_no_intersection(self, github_compat) ==
    LET default_scope_names == ScopeMappings[self.provider]
        overlap == IF Cardinality(self.scope) = 0
                   THEN default_scope_names
                   ELSE self.scope
    IN  IF /\ SCOPE_OPENID \notin overlap
           /\ \/ self.grant_type = HYBRID
              \/ self.response_type \in {RT_ID_TOKEN, RT_ID_TOKEN_TOKEN}
        THEN [self |-> [self EXCEPT !.scope = overlap],
              error |-> AuthorizeError(self.redirect_uri, "invalid_scope",
                                       self.grant_type, self.state,
                                       "scope_openid_missing")]
        ELSE [self |-> [self EXCEPT !.scope =
                          IF /\ SCOPE_OFFLINE_ACCESS \in overlap
                             /\ self.response_type \notin CodeResponseTypes
                          THEN overlap \ {SCOPE_OFFLINE_ACCESS}
                          ELSE overlap],
              error |-> NoError]

check_scope(self, github_compat) ==
    LET default_scope_names == ScopeMappings[self.provider]
        requested == IF Cardinality(self.scope) = 0
                     THEN default_scope_names
                     ELSE self.scope
        scopes_to_check == IF github_compat THEN requested \ SCOPE_GITHUB ELSE requested
        overlap == IF ~(scopes_to_check \subseteq default_scope_names)
                   THEN requested \cap default_scope_names
                   ELSE requested
    IN  IF /\ SCOPE_OPENID \notin overlap
           /\ \/ self.grant_type = HYBRID
              \/ self.response_type \in {RT_ID_TOKEN, RT_ID_TOKEN_TOKEN}
        THEN [self |-> [self EXCEPT !.scope = overlap],
              error |-> AuthorizeError(self.redirect_uri, "invalid_scope",
                                       self.grant_type, self.state,
                                       "scope_openid_missing")]
        ELSE [self |-> [self EXCEPT !.scope =
                          IF /\ SCOPE_OFFLINE_ACCESS \in overlap
                             /\ self.response_type \notin CodeResponseTypes
                          THEN overlap \ {SCOPE_OFFLINE_ACCESS}
                          ELSE overlap],
              error |-> NoError]

\* check_nonce: the response types that return an id_token from the endpoint
IdTokenResponseTypes ==
    {RT_ID_TOKEN, RT_ID_TOKEN_TOKEN, RT_CODE_ID_TOKEN, RT_CODE_ID_TOKEN_TOKEN}

\* Mutant of check_nonce: the hybrid response types are forgotten.
check_nonce_implicit_only(self) ==
    IF self.response_type \notin {RT_ID_TOKEN, RT_ID_TOKEN_TOKEN} THEN NoError
    ELSE IF SCOPE_OPENID \notin self.scope THEN NoError
    ELSE IF ~Truthy(self.nonce)
    THEN AuthorizeError(self.redirect_uri, "invalid_request", self.grant_type,
                        self.state, "nonce_missing")
    ELSE NoError

check_nonce(self) ==
    IF self.response_type \notin IdTokenResponseTypes THEN NoError
    ELSE IF SCOPE_OPENID \notin self.scope THEN NoError
    ELSE IF ~Truthy(self.nonce)
    THEN AuthorizeError(self.redirect_uri, "invalid_request", self.grant_type,
                        self.state, "nonce_missing")
    ELSE NoError

check_code_challenge(self) ==
    IF /\ Truthy(self.code_challenge)
       /\ self.code_challenge_method \notin {PKCE_METHOD_PLAIN, PKCE_METHOD_S256}
    THEN AuthorizeError(self.redirect_uri, "invalid_request", self.grant_type,
                        self.state, "")
    ELSE NoError

\* The outcome of constructing the params object: the object (as far as it got),
\* the exception raised (NoError when construction succeeds) and the providers'
\* allow-lists as saved.
Constructed(self, error, uris) == [self |-> self, error |-> error, redirect_uris |-> uris]

\* Mutant of post_init: check_nonce runs before the request parameter is refused.
post_init_nonce_first(self0, github_compat, uris) ==
    IF self0.client_id \notin Providers
    THEN Constructed(self0, ClientIdError, uris)
    ELSE
    LET self1 == [self0 EXCEPT !.provider = self0.client_id]
        r == check_redirect_uri(self1, uris[self1.provider])
        saved == [uris EXCEPT ![self1.provider] = r.redirect_uris]
        g == check_grant(self1)
        s == check_scope(g.self, github_compat)
    IN  IF r.error # NoError THEN Constructed(self1, r.error, saved)
        ELSE IF g.error # NoError THEN Constructed(g.self, g.error, saved)
        ELSE IF s.error # NoError THEN Constructed(s.self, s.error, saved)
        ELSE IF check_nonce(s.self) # NoError
        THEN Constructed(s.self, check_nonce(s.self), saved)
        ELSE IF Truthy(s.self.request)
        THEN Constructed(s.self,
                         AuthorizeError(s.self.redirect_uri, "request_not_supported",
                                        s.self.grant_type, s.self.state, ""),
                         saved)
        ELSE Constructed(s.self, check_code_challenge(s.self), saved)

\* Mutant of post_init: check_grant runs before check_redirect_uri.
post_init_grant_first(self0, github_compat, uris) ==
    IF self0.client_id \notin Providers
    THEN Constructed(self0, ClientIdError, uris)
    ELSE
    LET self1 == [self0 EXCEPT !.provider = self0.client_id]
        g == check_grant(self1)
        r == check_redirect_uri(g.self, uris[self1.provider])
        saved == [uris EXCEPT ![self1.provider] = r.redirect_uris]
        s == check_scope(g.self, github_compat)
    IN  IF g.error # NoError THEN Constructed(g.self, g.error, uris)
        ELSE IF r.error # NoError THEN Constructed(g.self, r.error, saved)
        ELSE IF s.error # NoError THEN Constructed(s.self, s.error, saved)
        ELSE IF Truthy(s.self.request)
        THEN Constructed(s.self,
                         AuthorizeError(s.self.redirect_uri, "request_not_supported",
                                        s.self.grant_type, s.self.state, ""),
                         saved)
        ELSE IF check_nonce(s.self) # NoError
        THEN Constructed(s.self, check_nonce(s.self), saved)
        ELSE Constructed(s.self, check_code_challenge(s.self), saved)

\* OAuthAuthorizationParams.__post_init__
post_init(self0, github_compat, uris) ==
    IF self0.client_id \notin Providers
    THEN Constructed(self0, ClientIdError, uris)
    ELSE
    LET self1 == [self0 EXCEPT !.provider = self0.client_id]
        r == check_redirect_uri(self1, uris[self1.provider])
        saved == [uris EXCEPT ![self1.provider] = r.redirect_uris]
        g == check_grant(self1)
        s == check_scope(g.self, github_compat)
    IN  IF r.error # NoError THEN Constructed(self1, r.error, saved)
        ELSE IF g.error # NoError THEN Constructed(g.self, g.error, saved)
        ELSE IF s.error # NoError THEN Constructed(s.self, s.error, saved)
        ELSE IF Truthy(s.self.request)
        THEN Constructed(s.self,
                         AuthorizeError(s.self.redirect_uri, "request_not_supported",
                                        s.self.grant_type, s.self.state, ""),
                         saved)
        ELSE IF check_nonce(s.self) # NoError
        THEN Constructed(s.self, check_nonce(s.self), saved)
        ELSE Constructed(s.self, check_code_challenge(s.self), saved)

-----------------------------------------------------------------------------
(* The authorization requests the relying party's browser can send *)

\* The parameters of the baseline request (the route is the standard one, not
\* the GitHub-compatible one, which is marked by the pseudo-parameter
\* "github_compat").
Baseline ==
    [client_id |-> "CID", redirect_uri |-> UriOk, response_type |-> RT_CODE_ID_TOKEN,
     scope |-> <<SCOPE_OPENID, SCOPE_OFFLINE_ACCESS>>, state |-> "xyz", nonce |-> "n"]

\* The values each parameter can take
ParamValues ==
    [client_id |-> {"CID", "FRESH", "JS", "unknown"},
     redirect_uri |-> {UriOk, UriUs, UriUsTail, UriHttp, UriJs, UriJsUpper},
     response_type |-> {RT_CODE, RT_ID_TOKEN, RT_ID_TOKEN_TOKEN, RT_CODE_TOKEN,
                        RT_CODE_ID_TOKEN, RT_CODE_ID_TOKEN_TOKEN, "token"},
     response_mode |-> {QUERY, FRAGMENT, FORM_POST, "web_message"},
     scope |-> { <<SCOPE_OPENID>>, <<SCOPE_OPENID, SCOPE_OFFLINE_ACCESS>>,
                 <<SCOPE_OFFLINE_ACCESS>>, <<SCOPE_OPENID, "email">>,
                 <<SCOPE_OPENID, "user:email">> },
     state |-> {"xyz", ""},
     nonce |-> {"n", ""},
     prompt |-> { <<PROMPT_NONE>>, <<PROMPT_LOGIN>>, <<PROMPT_CONSENT>>,
                  <<PROMPT_NONE, PROMPT_CONSENT>>, <<"select_account">> },
     request |-> {"eyJhbGciOi"},
     max_age |-> {"0", "1"},
     code_challenge |-> {"E9M"},
     code_challenge_method |-> {PKCE_METHOD_S256, "S512"},
     github_compat |-> {"yes"}]

\* The requests that differ from the baseline in at most k parameters, each
\* either given another value or left out.
RECURSIVE Deviations(_)
Deviations(k) ==
    IF k = 0 THEN {Baseline}
    ELSE LET fewer == Deviations(k - 1)
         IN  fewer
             \cup UNION { UNION { {Put(d, key, v) : v \in ParamValues[key]}
                                  : key \in DOMAIN ParamValues } : d \in fewer }
             \cup UNION { {Del(d, key) : key \in DOMAIN d} : d \in fewer }

HttpRequest(method, get, post, github_compat) ==
    [method |-> method, GET |-> get, POST |-> post, github_compat |-> github_compat]

NoRequest == HttpRequest("", EmptyDict, EmptyDict, FALSE)

\* A GET carries its parameters in the query string.  A POST carries them in the
\* body; its URL has no query string, or repeats the client or the state.
Requests ==
    {HttpRequest("GET", Del(d, "github_compat"), EmptyDict, "github_compat" \in DOMAIN d)
        : d \in Deviations(MaxDeviations)}
    \cup {HttpRequest("GET", EmptyDict, EmptyDict, FALSE)}
    \cup UNION { {HttpRequest("POST", [k \in DOMAIN d \cap keys |-> d[k]],
                              Del(d, "github_compat"), "github_compat" \in DOMAIN d)
                    : keys \in {{}, {"client_id"}, {"state"}}}
                 : d \in Deviations(MaxDeviations - 1) }

-----------------------------------------------------------------------------
(* Responses *)

\* kind: what the browser receives; target: the URI it is sent to (a redirect's
\* location without the payload, a form's action); mode: where the payload is
\* placed; payload: the parameters the relying party receives; error: the
\* exception the response renders.
Response(kind, status, target, mode, payload, error) ==
    [kind |-> kind, status |-> status, target |-> target, mode |-> mode,
     payload |-> payload, error |-> error]

NoResponse == Response("none", 0, EmptyStr, "", EmptyDict, NoError)
Http404 == Response("not_found", 404, EmptyStr, "", EmptyDict, NoError)
HttpResponseBadRequest == Response("bad_request", 400, EmptyStr, "", EmptyDict, NoError)

\* authentik.lib.views.bad_request_message(request, error.description, title=error.error)
bad_request_message(error) ==
    Response("bad_request", 400, EmptyStr, "", EmptyDict, error)

\* AuthorizeError.get_response: a redirect to the error's redirect_uri carrying
\* the error; a bad-request page when the error has no redirect_uri.
get_response(error) ==
    IF error.redirect_uri = EmptyStr
    THEN bad_request_message(error)
    ELSE Response("oauth_error", 302, error.redirect_uri, "", 
                  [error |-> error.error, error_description |-> error.cause], error)

\* PolicyAccessView.handle_no_permission: a redirect to authenticate, after
\* which the browser sends the authorization request again.
handle_no_permission == Response("login", 302, EmptyStr, "", EmptyDict, NoError)

\* PolicyAccessView.handle_no_permission_authenticated: the access-denied page.
handle_no_permission_authenticated ==
    Response("denied", 200, EmptyStr, "", EmptyDict, NoError)

\* plan.to_redirect: the browser is handed to the flow executor.
to_redirect == Response("to_flow", 302, EmptyStr, "", EmptyDict, NoError)

-----------------------------------------------------------------------------
(* The session, the flow plan and the database rows *)

\* login_event: the pk of the session's login event (0: none);
\* login_age: seconds since that event was created;
\* last_login_uid: session[SESSION_KEY_LAST_LOGIN_UID] (0: the key is not set).
Session(authenticated, login_event, login_age, last_login_uid) ==
    [authenticated |-> authenticated, login_event |-> login_event,
     login_age |-> login_age, last_login_uid |-> last_login_uid]

\* A flow plan: its context, its stages in order, the stage types the executor
\* may run without showing its interface, and what the fulfillment stage told
\* the executor (stage_ok / stage_invalid).
FlowPlan(context, bindings, allowed_silent_types, stage) ==
    [context |-> context, bindings |-> bindings,
     allowed_silent_types |-> allowed_silent_types, stage |-> stage]

NoPlan == FlowPlan(EmptyDict, <<>>, {}, "")

ConsentStage == "ConsentStage"
InMemoryConsentStage == "ConsentStage(ALWAYS_REQUIRE)"
OAuthFulfillmentStage == "OAuthFulfillmentStage"

IsConsentStage(stage) == stage \in {ConsentStage, InMemoryConsentStage}

\* The stages FlowPlanner.plan binds for each provider's authorization flow
AuthorizationFlow ==
    [CID |-> << >>, FRESH |-> << >>, JS |-> << ConsentStage >>]

\* uuid4().hex of the n-th identifier drawn
Uuid(n) == "uuid" \o ToString(n)

\* provider.access_token_validity, in seconds
AccessTokenValidity == 300

-----------------------------------------------------------------------------
(* AuthorizationFlowInitView *)

Handled(resp, self, sess, uris, newplan) ==
    [response |-> resp, params |-> self, session |-> sess,
     redirect_uris |-> uris, plan |-> newplan]

\* Mutant of view_get: prompt=login asks for a new login only while no
\* last_login_uid is saved.
view_get_login_uid_unchecked(self, sess, uris, oldplan, flow_applicable) ==
    LET login_uid == sess.login_event
        bindings == AuthorizationFlow[self.provider]
        saved == [sess EXCEPT !.last_login_uid = login_uid]
        with_consent ==
            IF /\ PROMPT_CONSENT \in self.prompt
               /\ ~\E i \in DOMAIN bindings : IsConsentStage(bindings[i])
            THEN Append(bindings, InMemoryConsentStage)
            ELSE bindings
        context == [k \in {PLAN_CONTEXT_PARAMS, PLAN_CONTEXT_APPLICATION} |->
                        IF k = PLAN_CONTEXT_PARAMS THEN self ELSE self.provider]
    IN  IF sess.login_event = 0
        THEN Handled(handle_no_permission, self, sess, uris, oldplan)
        ELSE IF /\ self.max_age # NoInt
                /\ self.max_age[1] # 0
                /\ sess.login_age > self.max_age[1]
        THEN Handled(handle_no_permission, self, saved, uris, oldplan)
        ELSE IF /\ PROMPT_LOGIN \in self.prompt
                /\ sess.last_login_uid = 0
        THEN Handled(handle_no_permission, self, saved, uris, oldplan)
        ELSE IF ~flow_applicable
        THEN Handled(handle_no_permission_authenticated, self, sess, uris, oldplan)
        ELSE Handled(to_redirect, self, sess, uris,
                     FlowPlan(context,
                              Append(with_consent, OAuthFulfillmentStage),
                              IF self.response_mode \in {QUERY, FRAGMENT}
                              THEN {OAuthFulfillmentStage}
                              ELSE {},
                              "pending"))

\* Mutant of view_get: prompt=login asks for a new login whatever
\* last_login_uid holds.
view_get_login_always(self, sess, uris, oldplan, flow_applicable) ==
    LET login_uid == sess.login_event
        bindings == AuthorizationFlow[self.provider]
        saved == [sess EXCEPT !.last_login_uid = login_uid]
        with_consent ==
            IF /\ PROMPT_CONSENT \in self.prompt
               /\ ~\E i \in DOMAIN bindings : IsConsentStage(bindings[i])
            THEN Append(bindings, InMemoryConsentStage)
            ELSE bindings
        context == [k \in {PLAN_CONTEXT_PARAMS, PLAN_CONTEXT_APPLICATION} |->
                        IF k = PLAN_CONTEXT_PARAMS THEN self ELSE self.provider]
    IN  IF sess.login_event = 0
        THEN Handled(handle_no_permission, self, sess, uris, oldplan)
        ELSE IF /\ self.max_age # NoInt
                /\ self.max_age[1] # 0
                /\ sess.login_age > self.max_age[1]
        THEN Handled(handle_no_permission, self, saved, uris, oldplan)
        ELSE IF PROMPT_LOGIN \in self.prompt
        THEN Handled(handle_no_permission, self, saved, uris, oldplan)
        ELSE IF ~flow_applicable
        THEN Handled(handle_no_permission_authenticated, self, sess, uris, oldplan)
        ELSE Handled(to_redirect, self, sess, uris,
                     FlowPlan(context,
                              Append(with_consent, OAuthFulfillmentStage),
                              IF self.response_mode \in {QUERY, FRAGMENT}
                              THEN {OAuthFulfillmentStage}
                              ELSE {},
                              "pending"))

\* Mutant of view_get: prompt=consent adds the in-memory consent stage without
\* looking for a consent stage in the plan.
view_get_consent_always_added(self, sess, uris, oldplan, flow_applicable) ==
    LET login_uid == sess.login_event
        bindings == AuthorizationFlow[self.provider]
        saved == [sess EXCEPT !.last_login_uid = login_uid]
        with_consent ==
            IF PROMPT_CONSENT \in self.prompt
            THEN Append(bindings, InMemoryConsentStage)
            ELSE bindings
        context == [k \in {PLAN_CONTEXT_PARAMS, PLAN_CONTEXT_APPLICATION} |->
                        IF k = PLAN_CONTEXT_PARAMS THEN self ELSE self.provider]
    IN  IF sess.login_event = 0
        THEN Handled(handle_no_permission, self, sess, uris, oldplan)
        ELSE IF /\ self.max_age # NoInt
                /\ self.max_age[1] # 0
                /\ sess.login_age > self.max_age[1]
        THEN Handled(handle_no_permission, self, saved, uris, oldplan)
        ELSE IF /\ PROMPT_LOGIN \in self.prompt
                /\ \/ sess.last_login_uid = 0
                   \/ login_uid = sess.last_login_uid
        THEN Handled(handle_no_permission, self, saved, uris, oldplan)
        ELSE IF ~flow_applicable
        THEN Handled(handle_no_permission_authenticated, self, sess, uris, oldplan)
        ELSE Handled(to_redirect, self, sess, uris,
                     FlowPlan(context,
                              Append(with_consent, OAuthFulfillmentStage),
                              IF self.response_mode \in {QUERY, FRAGMENT}
                              THEN {OAuthFulfillmentStage}
                              ELSE {},
                              "pending"))

\* Mutant of view_get: the fulfillment stage may run silently in every
\* response mode.
view_get_silent_in_every_mode(self, sess, uris, oldplan, flow_applicable) ==
    LET login_uid == sess.login_event
        bindings == AuthorizationFlow[self.provider]
        saved == [sess EXCEPT !.last_login_uid = login_uid]
        with_consent ==
            IF /\ PROMPT_CONSENT \in self.prompt
               /\ ~\E i \in DOMAIN bindings : IsConsentStage(bindings[i])
            THEN Append(bindings, InMemoryConsentStage)
            ELSE bindings
        context == [k \in {PLAN_CONTEXT_PARAMS, PLAN_CONTEXT_APPLICATION} |->
                        IF k = PLAN_CONTEXT_PARAMS THEN self ELSE self.provider]
    IN  IF sess.login_event = 0
        THEN Handled(handle_no_permission, self, sess, uris, oldplan)
        ELSE IF /\ self.max_age # NoInt
                /\ self.max_age[1] # 0
                /\ sess.login_age > self.max_age[1]
        THEN Handled(handle_no_permission, self, saved, uris, oldplan)
        ELSE IF /\ PROMPT_LOGIN \in self.prompt
                /\ \/ sess.last_login_uid = 0
                   \/ login_uid = sess.last_login_uid
        THEN Handled(handle_no_permission, self, saved, uris, oldplan)
        ELSE IF ~flow_applicable
        THEN Handled(handle_no_permission_authenticated, self, sess, uris, oldplan)
        ELSE Handled(to_redirect, self, sess, uris,
                     FlowPlan(context,
                              Append(with_consent, OAuthFulfillmentStage),
                              {OAuthFulfillmentStage},
                              "pending"))

\* AuthorizationFlowInitView.get; flow_applicable: whether the planner finds
\* the provider's authorization flow applicable to the user.
view_get(self, sess, uris, oldplan, flow_applicable) ==
    LET login_uid == sess.login_event
        bindings == AuthorizationFlow[self.provider]
        saved == [sess EXCEPT !.last_login_uid = login_uid]
        with_consent ==
            IF /\ PROMPT_CONSENT \in self.prompt
               /\ ~\E i \in DOMAIN bindings : IsConsentStage(bindings[i])
            THEN Append(bindings, InMemoryConsentStage)
            ELSE bindings
        context == [k \in {PLAN_CONTEXT_PARAMS, PLAN_CONTEXT_APPLICATION} |->
                        IF k = PLAN_CONTEXT_PARAMS THEN self ELSE self.provider]
    IN  IF sess.login_event = 0
        THEN Handled(handle_no_permission, self, sess, uris, oldplan)
        ELSE IF /\ self.max_age # NoInt
                /\ self.max_age[1] # 0
                /\ sess.login_age > self.max_age[1]
        THEN Handled(handle_no_permission, self, saved, uris, oldplan)
        ELSE IF /\ PROMPT_LOGIN \in self.prompt
                /\ \/ sess.last_login_uid = 0
                   \/ login_uid = sess.last_login_uid
        THEN Handled(handle_no_permission, self, saved, uris, oldplan)
        ELSE IF ~flow_applicable
        THEN Handled(handle_no_permission_authenticated, self, sess, uris, oldplan)
        ELSE Handled(to_redirect, self, sess, uris,
                     FlowPlan(context,
                              Append(with_consent, OAuthFulfillmentStage),
                              IF self.response_mode \in {QUERY, FRAGMENT}
                              THEN {OAuthFulfillmentStage}
                              ELSE {},
                              "pending"))

\* PolicyAccessView.dispatch after pre_permission_check: resolve the provider
\* from the URL's client_id, require an authenticated user who passes the
\* application's policies (access), then run get.
dispatch(req, self, sess, uris, oldplan, access, flow_applicable) ==
    IF Get(req.GET, "client_id", NoneVal) \notin Providers
    THEN Handled(Http404, self, sess, uris, oldplan)
    ELSE IF ~sess.authenticated
    THEN Handled(handle_no_permission, self, sess, uris, oldplan)
    ELSE IF ~access
    THEN Handled(handle_no_permission_authenticated, self, sess, uris, oldplan)
    ELSE view_get(self, sess, uris, oldplan, flow_applicable)

\* Mutant of pre_permission_check: prompt=none is not looked at before the
\* permission checks.
pre_permission_check_prompt_unchecked(req, sess, uris, oldplan, access, flow_applicable) ==
    IF Cardinality(DOMAIN req.GET) < 1
    THEN Handled(Http404, NoParams, sess, uris, oldplan)
    ELSE
    LET c == post_init(from_request(req), req.github_compat, uris)
    IN  IF c.error.cls = "AuthorizeError"
        THEN Handled(get_response(c.error), NoParams, sess, c.redirect_uris, oldplan)
        ELSE IF c.error # NoError
        THEN Handled(bad_request_message(c.error), NoParams, sess, c.redirect_uris, oldplan)
        ELSE dispatch(req, c.self, sess, c.redirect_uris, oldplan,
                      access, flow_applicable)

\* Mutant of pre_permission_check: an unknown client is answered with Http404.
pre_permission_check_client_404(req, sess, uris, oldplan, access, flow_applicable) ==
    IF Cardinality(DOMAIN req.GET) < 1
    THEN Handled(Http404, NoParams, sess, uris, oldplan)
    ELSE
    LET c == post_init(from_request(req), req.github_compat, uris)
    IN  IF c.error.cls = "AuthorizeError"
        THEN Handled(get_response(c.error), NoParams, sess, c.redirect_uris, oldplan)
        ELSE IF c.error.cls = "ClientIdError"
        THEN Handled(Http404, NoParams, sess, c.redirect_uris, oldplan)
        ELSE IF c.error # NoError
        THEN Handled(bad_request_message(c.error), NoParams, sess, c.redirect_uris, oldplan)
        ELSE IF PROMPT_NONE \in c.self.prompt /\ ~sess.authenticated
        THEN Handled(get_response(AuthorizeError(c.self.redirect_uri, "login_required",
                                                 c.self.grant_type, c.self.state, "")),
                     c.self, sess, c.redirect_uris, oldplan)
        ELSE dispatch(req, c.self, sess, c.redirect_uris, oldplan,
                      access, flow_applicable)

\* AuthorizationFlowInitView.pre_permission_check, followed by the rest of the
\* handler when it raises nothing.
pre_permission_check(req, sess, uris, oldplan, access, flow_applicable) ==
    IF Cardinality(DOMAIN req.GET) < 1
    THEN Handled(Http404, NoParams, sess, uris, oldplan)
    ELSE
    LET c == post_init(from_request(req), req.github_compat, uris)
    IN  IF c.error.cls = "AuthorizeError"
        THEN Handled(get_response(c.error), NoParams, sess, c.redirect_uris, oldplan)
        ELSE IF c.error # NoError
        THEN Handled(bad_request_message(c.error), NoParams, sess, c.redirect_uris, oldplan)
        ELSE IF PROMPT_NONE \in c.self.prompt /\ ~sess.authenticated
        THEN Handled(get_response(AuthorizeError(c.self.redirect_uri, "login_required",
                                                 c.self.grant_type, c.self.state, "")),
                     c.self, sess, c.redirect_uris, oldplan)
        ELSE dispatch(req, c.self, sess, c.redirect_uris, oldplan,
                      access, flow_applicable)

-----------------------------------------------------------------------------
(* OAuthFulfillmentStage *)

\* str(value) of a payload value: expires_in is an integer, the others strings
Str(key, value) == IF key = "expires_in" THEN ToString(value) ELSE value

\* urlencode(dict, doseq=True): every key with its value as text
urlencode(dict) == [k \in DOMAIN dict |-> Str(k, dict[k])]

\* parse_qs(query), each value's first item: keys with a blank value are dropped
parse_qs(query) ==
    [k \in {key \in DOMAIN query : query[key] # ""} |-> query[k]]

\* "state": str(self.params.state) if self.params.state else ""
StateParam(self) == IF Truthy(self.state) THEN self.state ELSE ""

\* AuthorizationCode.c_hash / AccessToken.at_hash: the hash claim of a value
HashClaim(value) == "hash(" \o value \o ")"

\* Mutant of create_code: the method is copied whether or not a challenge is set.
create_code_method_always(self, sess, n) ==
    [code |-> Uuid(n), provider |-> self.provider, scope |-> self.scope,
     nonce |-> self.nonce, auth_event |-> sess.login_event,
     code_challenge |-> IF Truthy(self.code_challenge) /\ Truthy(self.code_challenge_method)
                        THEN self.code_challenge ELSE NoneVal,
     code_challenge_method |-> self.code_challenge_method]

\* OAuthAuthorizationParams.create_code, with the n-th random identifier
create_code(self, sess, n) ==
    [code |-> Uuid(n), provider |-> self.provider, scope |-> self.scope,
     nonce |-> self.nonce, auth_event |-> sess.login_event,
     code_challenge |-> IF Truthy(self.code_challenge) /\ Truthy(self.code_challenge_method)
                        THEN self.code_challenge ELSE NoneVal,
     code_challenge_method |-> IF Truthy(self.code_challenge) /\ Truthy(self.code_challenge_method)
                               THEN self.code_challenge_method ELSE NoneVal]

NoCode == [code |-> NoneVal]

\* What building the response made: the payload (or the exception raised), the
\* rows saved, and the number of random identifiers drawn.
Built(payload, raised, error, saved_codes, saved_tokens, drawn) ==
    [payload |-> payload, raised |-> raised, error |-> error,
     codes |-> saved_codes, tokens |-> saved_tokens, drawn |-> drawn]

\* OAuthFulfillmentStage.create_implicit_response: the AccessToken row it saves
\* and the dictionary it returns.  n: the identifiers drawn before the token's.
AccessTokenRow(self, sess, code, n) ==
    [token |-> Uuid(n + 1), provider |-> self.provider, scope |-> self.scope,
     auth_event |-> sess.login_event,
     id_token |-> [nonce |-> self.nonce,
                   c_hash |-> IF self.response_type \in {RT_CODE_ID_TOKEN, RT_CODE_ID_TOKEN_TOKEN}
                              THEN HashClaim(code.code) ELSE NoneVal,
                   at_hash |-> IF self.response_type \in
                                    {RT_ID_TOKEN_TOKEN, RT_CODE_ID_TOKEN_TOKEN, RT_CODE_TOKEN}
                               THEN HashClaim(Uuid(n + 1)) ELSE NoneVal]]

\* provider.encode(id_token.to_dict()): the compact JWS of the token's ID token,
\* which carries the claims the ID token has when it is serialized
encode(token) ==
    "jws(" \o token.token \o ", c_hash=" \o token.id_token.c_hash
           \o ", at_hash=" \o token.id_token.at_hash \o ")"

\* Mutant of create_implicit_response: the ID token is serialized before at_hash
\* is set on it.
create_implicit_response_encode_first(self, sess, code, n) ==
    LET token == AccessTokenRow(self, sess, code, n)
        unhashed == [token EXCEPT !.id_token.at_hash = NoneVal]
        d1 == IF self.response_type \in {RT_ID_TOKEN_TOKEN, RT_CODE_ID_TOKEN_TOKEN, RT_CODE_TOKEN}
              THEN Put(EmptyDict, "access_token", token.token)
              ELSE EmptyDict
        d2 == IF self.response_type \in IdTokenResponseTypes
              THEN Put(d1, "id_token", encode(unhashed))
              ELSE d1
        d3 == IF self.grant_type = HYBRID THEN Put(d2, "code", code.code) ELSE d2
        d4 == Put(d3, "token_type", TOKEN_TYPE)
        d5 == Put(d4, "expires_in", AccessTokenValidity)
    IN  [token |-> token, query_fragment |-> Put(d5, "state", StateParam(self))]

create_implicit_response(self, sess, code, n) ==
    LET token == AccessTokenRow(self, sess, code, n)
        d1 == IF self.response_type \in {RT_ID_TOKEN_TOKEN, RT_CODE_ID_TOKEN_TOKEN, RT_CODE_TOKEN}
              THEN Put(EmptyDict, "access_token", token.token)
              ELSE EmptyDict
        d2 == IF self.response_type \in IdTokenResponseTypes
              THEN Put(d1, "id_token", encode(token))
              ELSE d1
        d3 == IF self.grant_type = HYBRID THEN Put(d2, "code", code.code) ELSE d2
        d4 == Put(d3, "token_type", TOKEN_TYPE)
        d5 == Put(d4, "expires_in", AccessTokenValidity)
    IN  [token |-> token, query_fragment |-> Put(d5, "state", StateParam(self))]

\* Mutant of create_response_uri: the code is created but not saved.
create_response_uri_code_unsaved(self, sess, n) ==
    LET has_code == self.grant_type \in {AUTHORIZATION_CODE, HYBRID}
        code == IF has_code THEN create_code(self, sess, n + 1) ELSE NoCode
        n1 == IF has_code THEN n + 1 ELSE n
        saved_codes == {}
        code_state == Put(Put(EmptyDict, "code", code.code), "state", StateParam(self))
        implicit == create_implicit_response(self, sess, code, n1)
    IN  IF self.response_mode = QUERY
        THEN IF code = NoCode
             THEN \* code.code with code = None: AttributeError
                  Built(EmptyDict, "AttributeError", NoError, saved_codes, {}, n1)
             ELSE Built(urlencode(code_state), "", NoError, saved_codes, {}, n1)
        ELSE IF self.response_mode \in {FRAGMENT, FORM_POST}
        THEN IF self.grant_type \in {AUTHORIZATION_CODE}
             THEN Built(urlencode(code_state), "", NoError, saved_codes, {}, n1)
             ELSE Built(urlencode(implicit.query_fragment), "", NoError,
                        saved_codes, {implicit.token}, n1 + 1)
        ELSE Built(EmptyDict, "AuthorizeError",
                   AuthorizeError(self.redirect_uri, "server_error", self.grant_type,
                                  self.state, ""),
                   saved_codes, {}, n1)

\* OAuthFulfillmentStage.create_response_uri: the parameters it puts into the
\* URI (the redirect URIs used here have no query and no fragment of their own).
\* n: the identifiers drawn so far.
create_response_uri(self, sess, n) ==
    LET has_code == self.grant_type \in {AUTHORIZATION_CODE, HYBRID}
        code == IF has_code THEN create_code(self, sess, n + 1) ELSE NoCode
        n1 == IF has_code THEN n + 1 ELSE n
        saved_codes == IF has_code THEN {code} ELSE {}
        code_state == Put(Put(EmptyDict, "code", code.code), "state", StateParam(self))
        implicit == create_implicit_response(self, sess, code, n1)
    IN  IF self.response_mode = QUERY
        THEN IF code = NoCode
             THEN \* code.code with code = None: AttributeError
                  Built(EmptyDict, "AttributeError", NoError, saved_codes, {}, n1)
             ELSE Built(urlencode(code_state), "", NoError, saved_codes, {}, n1)
        ELSE IF self.response_mode \in {FRAGMENT, FORM_POST}
        THEN IF self.grant_type \in {AUTHORIZATION_CODE}
             THEN Built(urlencode(code_state), "", NoError, saved_codes, {}, n1)
             ELSE Built(urlencode(implicit.query_fragment), "", NoError,
                        saved_codes, {implicit.token}, n1 + 1)
        ELSE Built(EmptyDict, "AuthorizeError",
                   AuthorizeError(self.redirect_uri, "server_error", self.grant_type,
                                  self.state, ""),
                   saved_codes, {}, n1)

\* OAuthFulfillmentStage.redirect
redirect(self, query) ==
    IF self.response_mode = FORM_POST
    THEN Response("autosubmit", 200, self.redirect_uri, "form", parse_qs(query), NoError)
    ELSE Response("redirect", 302, self.redirect_uri, self.response_mode, query, NoError)

HttpResponseServerError ==
    Response("exception", 500, EmptyStr, "", EmptyDict, NoError)

AuthorizeApplicationEvent(self) ==
    [action |-> "authorize_application", application |-> self.provider,
     scopes |-> self.scope, error |-> ""]

\* error.to_event(application=...)
to_event(self, error) ==
    [action |-> "configuration_error", application |-> self.provider,
     scopes |-> {}, error |-> error.error]

-----------------------------------------------------------------------------
(* The state machine *)

Init ==
    /\ redirect_uris = ConfiguredRedirectUris
    /\ session = Session(FALSE, 0, 0, 0)
    /\ request = NoRequest
    /\ params = NoParams
    /\ response = NoResponse
    /\ plan = NoPlan
    /\ codes = {}
    /\ tokens = {}
    /\ events = <<>>
    /\ uuids = 0
    /\ inflight = <<>>

\* The user authenticates (first login, or the re-authentication a redirect to
\* log in asks for): a new login event is created.
Login ==
    /\ \/ request = NoRequest /\ ~session.authenticated
       \/ response.kind = "login"
    /\ session.login_event < MaxLogins
    /\ session' = [session EXCEPT !.authenticated = TRUE,
                                  !.login_event = session.login_event + 1,
                                  !.login_age = 0]
    /\ UNCHANGED <<redirect_uris, request, params, response, plan, codes, tokens,
                   events, uuids, inflight>>

\* A second passes before the request arrives.
Tick ==
    /\ request = NoRequest
    /\ session.login_event # 0
    /\ session.login_age < MaxClock
    /\ session' = [session EXCEPT !.login_age = session.login_age + 1]
    /\ UNCHANGED <<redirect_uris, request, params, response, plan, codes, tokens,
                   events, uuids, inflight>>

\* The init handler (AuthorizationFlowInitView.dispatch) handles request req.
\* access: whether the user passes the application's policies; flow_applicable:
\* whether the planner finds the authorization flow applicable.
Handle(req) ==
    /\ \E access \in BOOLEAN, flow_applicable \in BOOLEAN :
         LET h == pre_permission_check(req, session, redirect_uris, plan,
                                       access, flow_applicable)
         IN  /\ request' = req
             /\ response' = h.response
             /\ params' = h.params
             /\ session' = h.session
             /\ redirect_uris' = h.redirect_uris
             /\ plan' = h.plan
    /\ UNCHANGED <<codes, tokens, events, uuids, inflight>>

\* The browser sends an authorization request.
Authorize ==
    /\ request = NoRequest
    /\ \E req \in Requests : Handle(req)

\* After a redirect to log in, the browser sends the same request again.
Replay ==
    /\ request # NoRequest
    /\ response.kind = "login"
    /\ Handle(request)

\* Mutant of Fulfill: the AUTHORIZE_APPLICATION event is created before the
\* prompt is looked at.
Fulfill_event_before_prompt_check ==
    /\ plan # NoPlan
    /\ session.authenticated
    /\ IF PLAN_CONTEXT_PARAMS \notin DOMAIN plan.context
       THEN /\ response' = HttpResponseBadRequest
            /\ UNCHANGED <<params, plan, codes, tokens, events, uuids>>
       ELSE LET self == plan.context[PLAN_CONTEXT_PARAMS]
                popped == Del(Del(plan.context, PLAN_CONTEXT_PARAMS),
                              PLAN_CONTEXT_APPLICATION)
                consent_required ==
                    AuthorizeError(self.redirect_uri, "consent_required",
                                   self.grant_type, self.state, "")
                b == create_response_uri(self, session, uuids)
            IN  /\ params' = self
                /\ IF {PROMPT_NONE, PROMPT_CONSENT} \subseteq self.prompt
                   THEN /\ response' = get_response(consent_required)
                        /\ plan' = [plan EXCEPT !.context = popped, !.stage = "invalid"]
                        /\ events' = Append(Append(events, AuthorizeApplicationEvent(self)),
                                            to_event(self, consent_required))
                        /\ UNCHANGED <<codes, tokens, uuids>>
                   ELSE /\ codes' = codes \cup b.codes
                        /\ tokens' = tokens \cup b.tokens
                        /\ uuids' = b.drawn
                        /\ IF b.raised = ""
                           THEN /\ response' = redirect(self, b.payload)
                                /\ plan' = [plan EXCEPT !.context = popped, !.stage = "ok"]
                                /\ events' = Append(events, AuthorizeApplicationEvent(self))
                           ELSE IF b.raised = "AuthorizeError"
                           THEN /\ response' = get_response(b.error)
                                /\ plan' = [plan EXCEPT !.context = popped,
                                                        !.stage = "invalid"]
                                /\ events' = Append(Append(events,
                                                 AuthorizeApplicationEvent(self)),
                                                 to_event(self, b.error))
                           ELSE /\ response' = HttpResponseServerError
                                /\ plan' = [plan EXCEPT !.context = popped]
                                /\ events' = Append(events, AuthorizeApplicationEvent(self))
    /\ UNCHANGED <<redirect_uris, session, request, inflight>>

\* Mutant of Fulfill: the stage reads params and application from the plan
\* context and leaves them there.
Fulfill_context_kept ==
    /\ plan # NoPlan
    /\ session.authenticated
    /\ IF PLAN_CONTEXT_PARAMS \notin DOMAIN plan.context
       THEN /\ response' = HttpResponseBadRequest
            /\ UNCHANGED <<params, plan, codes, tokens, events, uuids>>
       ELSE LET self == plan.context[PLAN_CONTEXT_PARAMS]
                popped == plan.context
                consent_required ==
                    AuthorizeError(self.redirect_uri, "consent_required",
                                   self.grant_type, self.state, "")
                b == create_response_uri(self, session, uuids)
            IN  /\ params' = self
                /\ IF {PROMPT_NONE, PROMPT_CONSENT} \subseteq self.prompt
                   THEN /\ response' = get_response(consent_required)
                        /\ plan' = [plan EXCEPT !.context = popped, !.stage = "invalid"]
                        /\ events' = Append(events, to_event(self, consent_required))
                        /\ UNCHANGED <<codes, tokens, uuids>>
                   ELSE /\ codes' = codes \cup b.codes
                        /\ tokens' = tokens \cup b.tokens
                        /\ uuids' = b.drawn
                        /\ IF b.raised = ""
                           THEN /\ response' = redirect(self, b.payload)
                                /\ plan' = [plan EXCEPT !.context = popped, !.stage = "ok"]
                                /\ events' = Append(events, AuthorizeApplicationEvent(self))
                           ELSE IF b.raised = "AuthorizeError"
                           THEN /\ response' = get_response(b.error)
                                /\ plan' = [plan EXCEPT !.context = popped,
                                                        !.stage = "invalid"]
                                /\ events' = Append(Append(events,
                                                 AuthorizeApplicationEvent(self)),
                                                 to_event(self, b.error))
                           ELSE /\ response' = HttpResponseServerError
                                /\ plan' = [plan EXCEPT !.context = popped]
                                /\ events' = Append(events, AuthorizeApplicationEvent(self))
    /\ UNCHANGED <<redirect_uris, session, request, inflight>>

\* The flow executor reaches the fulfillment stage: OAuthFulfillmentStage.get
Fulfill ==
    /\ plan # NoPlan
    /\ session.authenticated
    /\ IF PLAN_CONTEXT_PARAMS \notin DOMAIN plan.context
       THEN /\ response' = HttpResponseBadRequest
            /\ UNCHANGED <<params, plan, codes, tokens, events, uuids>>
       ELSE LET self == plan.context[PLAN_CONTEXT_PARAMS]
                popped == Del(Del(plan.context, PLAN_CONTEXT_PARAMS),
                              PLAN_CONTEXT_APPLICATION)
                consent_required ==
                    AuthorizeError(self.redirect_uri, "consent_required",
                                   self.grant_type, self.state, "")
                b == create_response_uri(self, session, uuids)
            IN  /\ params' = self
                /\ IF {PROMPT_NONE, PROMPT_CONSENT} \subseteq self.prompt
                   THEN /\ response' = get_response(consent_required)
                        /\ plan' = [plan EXCEPT !.context = popped, !.stage = "invalid"]
                        /\ events' = Append(events, to_event(self, consent_required))
                        /\ UNCHANGED <<codes, tokens, uuids>>
                   ELSE /\ codes' = codes \cup b.codes
                        /\ tokens' = tokens \cup b.tokens
                        /\ uuids' = b.drawn
                        /\ IF b.raised = ""
                           THEN /\ response' = redirect(self, b.payload)
                                /\ plan' = [plan EXCEPT !.context = popped, !.stage = "ok"]
                                /\ events' = Append(events, AuthorizeApplicationEvent(self))
                           ELSE IF b.raised = "AuthorizeError"
                           THEN /\ response' = get_response(b.error)
                                /\ plan' = [plan EXCEPT !.context = popped,
                                                        !.stage = "invalid"]
                                /\ events' = Append(Append(events,
                                                 AuthorizeApplicationEvent(self)),
                                                 to_event(self, b.error))
                           ELSE /\ response' = HttpResponseServerError
                                /\ plan' = [plan EXCEPT !.context = popped]
                                /\ events' = Append(events, AuthorizeApplicationEvent(self))
    /\ UNCHANGED <<redirect_uris, session, request, inflight>>

Next == Login \/ Tick \/ Authorize \/ Replay \/ Fulfill

Spec == Init /\ [][Next]_vars

-----------------------------------------------------------------------------
(* One session that sends several authorization requests, one after another *)

\* The GET requests of the standard route that differ from the baseline only in
\* the client (CID or FRESH), the redirect_uri, the prompt and max_age.
SessionRequests ==
    {req \in Requests :
        /\ req.method = "GET"
        /\ ~req.github_compat
        /\ DOMAIN req.GET \subseteq DOMAIN Baseline \cup {"prompt", "max_age"}
        /\ DOMAIN Baseline \ {"redirect_uri"} \subseteq DOMAIN req.GET
        /\ req.GET.client_id \in {"CID", "FRESH"}
        /\ \A k \in DOMAIN Baseline \ {"client_id", "redirect_uri"} :
              req.GET[k] = Baseline[k]}

\* The browser sends an authorization request.
SessionAuthorize ==
    /\ request = NoRequest
    /\ \E req \in SessionRequests : Handle(req)

\* The browser is done with the request (the flow was completed or left); the
\* session and the database stay as they are.
NextRequest ==
    /\ request # NoRequest
    /\ request' = NoRequest
    /\ params' = NoParams
    /\ response' = NoResponse
    /\ plan' = NoPlan
    /\ UNCHANGED <<redirect_uris, session, codes, tokens, events, uuids, inflight>>

SessionNext == Login \/ Tick \/ SessionAuthorize \/ Replay \/ NextRequest

SessionSpec == Init /\ [][SessionNext]_vars

-----------------------------------------------------------------------------
(* Requests that are inside OAuthAuthorizationParams.__post_init__ at the same *)
(* time, each handled by its own worker with its own provider object           *)

Racers == 1 .. MaxRacers

\* The redirect URIs and the clients of these requests
RaceUris == {EmptyStr, UriOk, UriUs, UriJs}
RaceClients == {"FRESH", "CID"}

\* A request in flight.  pc: where its worker is; loaded_uris: redirect_uris of
\* the provider row as the worker read it; provider_uris: redirect_uris of the
\* worker's provider object; error: what check_redirect_uri raised.
Racer(pc, client_id, redirect_uri, loaded_uris, provider_uris, error) ==
    [pc |-> pc, client_id |-> client_id, redirect_uri |-> redirect_uri,
     loaded_uris |-> loaded_uris, provider_uris |-> provider_uris, error |-> error]

RaceInit ==
    /\ redirect_uris = ConfiguredRedirectUris
    /\ session = Session(FALSE, 0, 0, 0)
    /\ request = NoRequest
    /\ params = NoParams
    /\ response = NoResponse
    /\ plan = NoPlan
    /\ codes = {}
    /\ tokens = {}
    /\ events = <<>>
    /\ uuids = 0
    /\ inflight = [p \in Racers |-> Racer("idle", "", EmptyStr, <<>>, <<>>, NoError)]

\* A request arrives at a worker.
Arrive(p) ==
    /\ inflight[p].pc = "idle"
    /\ \E client \in RaceClients, uri \in RaceUris :
         inflight' = [inflight EXCEPT ![p] = Racer("arrived", client, uri, <<>>, <<>>, NoError)]
    /\ UNCHANGED <<redirect_uris, session, request, params, response, plan, codes, tokens,
                   events, uuids>>

\* __post_init__ reads the provider row: OAuth2Provider.objects.filter(...).first()
LoadProvider(p) ==
    /\ inflight[p].pc = "arrived"
    /\ inflight' = [inflight EXCEPT ![p].pc = "loaded",
                                    ![p].loaded_uris = redirect_uris[inflight[p].client_id],
                                    ![p].provider_uris = redirect_uris[inflight[p].client_id]]
    /\ UNCHANGED <<redirect_uris, session, request, params, response, plan, codes, tokens,
                   events, uuids>>

\* Mutant of CheckRedirectUri: the entry is added to the row's list as it is at
\* the moment of the save.
CheckRedirectUri_entry_appended(p) ==
    /\ inflight[p].pc = "loaded"
    /\ LET self == inflight[p]
           r == check_redirect_uri(self, self.provider_uris)
       IN  /\ inflight' = [inflight EXCEPT ![p].pc = "done",
                                           ![p].provider_uris = r.redirect_uris,
                                           ![p].error = r.error]
           /\ redirect_uris' =
                 IF self.redirect_uri # EmptyStr /\ Len(self.provider_uris) < 1
                 THEN [redirect_uris EXCEPT ![self.client_id] = @ \o r.redirect_uris]
                 ELSE redirect_uris
    /\ UNCHANGED <<session, request, params, response, plan, codes, tokens, events, uuids>>

\* check_redirect_uri on the worker's provider object; provider.save() writes the
\* object's redirect_uris to the row when the object's list was empty.
CheckRedirectUri(p) ==
    /\ inflight[p].pc = "loaded"
    /\ LET self == inflight[p]
           r == check_redirect_uri(self, self.provider_uris)
       IN  /\ inflight' = [inflight EXCEPT ![p].pc = "done",
                                           ![p].provider_uris = r.redirect_uris,
                                           ![p].error = r.error]
           /\ redirect_uris' =
                 IF self.redirect_uri # EmptyStr /\ Len(self.provider_uris) < 1
                 THEN [redirect_uris EXCEPT ![self.client_id] = r.redirect_uris]
                 ELSE redirect_uris
    /\ UNCHANGED <<session, request, params, response, plan, codes, tokens, events, uuids>>

RaceNext == \E p \in Racers : Arrive(p) \/ LoadProvider(p) \/ CheckRedirectUri(p)

RaceSpec == RaceInit /\ [][RaceNext]_vars

-----------------------------------------------------------------------------
(* What the claims speak about *)

\* The parameters of the request, as read from it
Asked == from_request(request)

\* The handler ran the validation of the request (it had query parameters).
Entered == request # NoRequest /\ DOMAIN request.GET # {}

\* The request passed validation: a params object exists.
Validated == Entered /\ params # NoParams

\* The request failed validation with this error and cause.
FailedWith(error, cause) ==
    /\ Entered
    /\ params = NoParams
    /\ response.kind \in {"bad_request", "oauth_error"}
    /\ response.error.error = error
    /\ response.error.cause = cause

\* The request failed validation with an error of this cause.
FailedWithCause(cause) ==
    /\ Entered
    /\ params = NoParams
    /\ response.kind = "bad_request"
    /\ response.error.cls = "RedirectUriError"
    /\ response.error.cause = cause

KnownClient == Asked.client_id \in Providers

\* An allow-list entry matches a URI: a strict entry by equality, a regex entry
\* by a full match; a malformed regex matches nothing.
EntryMatches(entry, uri) ==
    \/ entry.matching_mode = STRICT /\ entry.url = uri
    \/ entry.matching_mode = REGEX /\ ~RegexError(entry.url) /\ fullmatch(entry.url, uri)

\* Some entry of the client's saved allow-list matches the URI.
SomeEntryMatches(client, uri) ==
    \E i \in DOMAIN redirect_uris[client] : EntryMatches(redirect_uris[client][i], uri)

\* The scheme of the URI, compared without regard to case, is forbidden.
ForbiddenScheme(uri) ==
    /\ Len(uri) >= 2
    /\ uri[2] = ":"
    /\ uri[1] \in {"javascript", "JavaScript", "data", "vbscript"}

\* The redirect URI is trusted for the client: it is not empty, an entry of the
\* client's allow-list matches it, and its scheme is not forbidden.
Trusted(client, uri) ==
    /\ client \in Providers
    /\ uri # EmptyStr
    /\ SomeEntryMatches(client, uri)
    /\ ~ForbiddenScheme(uri)

\* The response sends the browser, with a payload, to the relying party.
SentToRelyingParty == response.kind \in {"oauth_error", "redirect", "autosubmit"}

-----------------------------------------------------------------------------
(* C1 *)

\* C1: no response of the init handler or of the fulfillment stage redirects the
\* browser to, or auto-submits a form to, a redirect_uri that is not the
\* request's, matched by the provider's allow-list and free of a forbidden
\* scheme; a request with an unknown client or a missing, unmatched or
\* forbidden redirect_uri gets an error page that is not a redirect.
C1_OnlyTrustedRedirects ==
    /\ SentToRelyingParty =>
         /\ response.target = Asked.redirect_uri
         /\ Trusted(Asked.client_id, response.target)
    /\ (Entered /\ ~Trusted(Asked.client_id, Asked.redirect_uri)) =>
         /\ response.kind = "bad_request"
         /\ response.status = 400
         /\ plan = NoPlan

\* An error is sent to a trusted redirect URI although the response type is bad.
C1_Witness ==
    /\ response.kind = "oauth_error"
    /\ response.error.error = "unsupported_response_type"
    /\ Trusted(Asked.client_id, response.target)

-----------------------------------------------------------------------------
(* C2 *)

\* The allow-list of the client was configured with at least one entry.
ConfiguredList == KnownClient /\ Len(ConfiguredRedirectUris[Asked.client_id]) >= 1

\* check_redirect_uri raised for the request
RedirectRejected ==
    /\ Entered
    /\ response.kind = "bad_request"
    /\ response.error.cls = "RedirectUriError"

\* C2 as claimed: with a non-empty allow-list, a non-empty redirect_uri is
\* accepted if and only if at least one entry matches it.
C2_AcceptedIffMatched ==
    (Entered /\ ConfiguredList /\ Asked.redirect_uri # EmptyStr) =>
        (~RedirectRejected <=> SomeEntryMatches(Asked.client_id, Asked.redirect_uri))

\* C2 amended: with a non-empty allow-list, a non-empty redirect_uri is accepted
\* if and only if at least one entry matches it (strict: equality; regex: full
\* match; a malformed regex is a non-match and later entries are still tried)
\* and its scheme is not forbidden.  An empty redirect_uri fails with cause
\* redirect_uri_missing, one that no entry matches with redirect_uri_no_match.
C2_AcceptedIffMatchedAndAllowedScheme ==
    (Entered /\ ConfiguredList) =>
        /\ Asked.redirect_uri = EmptyStr =>
             FailedWithCause("redirect_uri_missing")
        /\ (Asked.redirect_uri # EmptyStr
              /\ ~SomeEntryMatches(Asked.client_id, Asked.redirect_uri)) =>
             FailedWithCause("redirect_uri_no_match")
        /\ Asked.redirect_uri # EmptyStr =>
             (~RedirectRejected <=>
                 /\ SomeEntryMatches(Asked.client_id, Asked.redirect_uri)
                 /\ ~ForbiddenScheme(Asked.redirect_uri))

\* A redirect URI is accepted through a regex entry that follows a malformed one.
C2_Witness ==
    /\ Validated
    /\ Asked.client_id = "CID"
    /\ Asked.redirect_uri = UriUs
    /\ RegexError(redirect_uris["CID"][1].url)

-----------------------------------------------------------------------------
(* C3 *)

\* C3 as claimed: a redirect_uri with a forbidden scheme fails with cause
\* redirect_uri_forbidden_scheme whether or not the allow-list matches it.
C3_ForbiddenSchemeCauseAlways ==
    (Entered /\ KnownClient /\ ForbiddenScheme(Asked.redirect_uri)) =>
        FailedWithCause("redirect_uri_forbidden_scheme")

\* C3 amended: a redirect_uri with a forbidden scheme always fails validation
\* with a redirect URI error: with cause redirect_uri_forbidden_scheme when an
\* allow-list entry matches it (or the list was empty and the URI was
\* provisioned), with cause redirect_uri_no_match when the allow-list is not
\* empty and no entry matches it.
C3_ForbiddenSchemeAlwaysFails ==
    (Entered /\ KnownClient /\ ForbiddenScheme(Asked.redirect_uri)) =>
        /\ RedirectRejected
        /\ params = NoParams
        /\ IF SomeEntryMatches(Asked.client_id, Asked.redirect_uri)
           THEN FailedWithCause("redirect_uri_forbidden_scheme")
           ELSE FailedWithCause("redirect_uri_no_match")

\* A forbidden scheme is refused although an allow-list entry matches the URI,
\* here a regex entry written in another case than the lower-cased scheme.
C3_Witness ==
    /\ FailedWithCause("redirect_uri_forbidden_scheme")
    /\ Asked.client_id = "JS"
    /\ Asked.redirect_uri = UriJsUpper
    /\ SomeEntryMatches("JS", UriJsUpper)

-----------------------------------------------------------------------------
(* C4 *)

\* The grant of each supported response_type
GrantTable ==
    [k \in {RT_CODE, RT_ID_TOKEN, RT_ID_TOKEN_TOKEN, RT_CODE_TOKEN, RT_CODE_ID_TOKEN,
            RT_CODE_ID_TOKEN_TOKEN} |->
        CASE k = "code" -> "authorization_code"
          [] k \in {"id_token", "id_token token"} -> "implicit"
          [] OTHER -> "hybrid"]

\* C4: the grant_type of a validated request is given by its response_type
\* alone, whatever the other parameters are; any other response_type, with a
\* known client and an accepted redirect_uri, fails with
\* unsupported_response_type and yields no params object.
C4_GrantFromResponseType ==
    /\ Validated =>
         /\ Asked.response_type \in DOMAIN GrantTable
         /\ params.response_type = Asked.response_type
         /\ params.grant_type = GrantTable[Asked.response_type]
    /\ (Entered /\ Trusted(Asked.client_id, Asked.redirect_uri)
          /\ Asked.response_type \notin DOMAIN GrantTable) =>
         /\ FailedWith("unsupported_response_type", "")
         /\ response.kind = "oauth_error"

\* A hybrid request is validated with a prompt, a response mode and PKCE set.
C4_Witness ==
    /\ Validated
    /\ params.grant_type = "hybrid"
    /\ Asked.response_type = "code token"
    /\ params.response_mode = "form_post"

-----------------------------------------------------------------------------
(* C5 *)

\* C5: the response_mode of a validated request is query, fragment or form_post:
\* a supplied value of that set is kept; an absent or other value becomes query
\* for the authorization code grant and fragment for implicit and hybrid.
C5_ResponseMode ==
    Validated =>
        /\ params.response_mode \in {"query", "fragment", "form_post"}
        /\ Asked.response_mode \in {"query", "fragment", "form_post"} =>
             params.response_mode = Asked.response_mode
        /\ Asked.response_mode \notin {"query", "fragment", "form_post"} =>
             params.response_mode =
                 IF params.grant_type = "authorization_code" THEN "query" ELSE "fragment"

\* A hybrid request with an unknown response_mode is given the fragment mode.
C5_Witness ==
    /\ Validated
    /\ "response_mode" \in DOMAIN request.GET
    /\ Asked.response_mode = "web_message"
    /\ params.grant_type = "hybrid"
    /\ params.response_mode = "fragment"

-----------------------------------------------------------------------------
(* C6 *)

\* The scopes the client may be given: the requested ones, or all configured
\* ones when none is requested, that are configured for the client.
Configured == IF KnownClient THEN ScopeMappings[Asked.client_id] ELSE {}

RequestedOrAdopted == IF Asked.scope = {} THEN Configured ELSE Asked.scope

OpenidGranted == "openid" \in RequestedOrAdopted \cap Configured

IdTokenAsked ==
    Asked.response_type \in {"id_token", "id_token token", "code id_token",
                             "code id_token token"}

\* The error of one validation of the request: <<class, error, cause>> (the
\* error code only of an error that is sent to the redirect URI), or NoFailure
\* when the request passes it.
NoFailure == <<"", "", "">>

FailureOf(validation) ==
    CASE validation = "client" ->
           IF KnownClient THEN NoFailure
           ELSE <<"ClientIdError", "", "">>
      [] validation = "grant" ->
           IF Asked.response_type \in DOMAIN GrantTable THEN NoFailure
           ELSE <<"AuthorizeError", "unsupported_response_type", "">>
      [] validation = "redirect_uri" ->
           IF Asked.redirect_uri = EmptyStr
           THEN <<"RedirectUriError", "", "redirect_uri_missing">>
           ELSE IF KnownClient /\ ~SomeEntryMatches(Asked.client_id, Asked.redirect_uri)
           THEN <<"RedirectUriError", "", "redirect_uri_no_match">>
           ELSE IF ForbiddenScheme(Asked.redirect_uri)
           THEN <<"RedirectUriError", "", "redirect_uri_forbidden_scheme">>
           ELSE NoFailure
      [] validation = "scope" ->
           IF ~OpenidGranted /\ Asked.response_type \in DOMAIN GrantTable
                             /\ Asked.response_type # "code"
           THEN <<"AuthorizeError", "invalid_scope", "scope_openid_missing">>
           ELSE NoFailure
      [] validation = "nonce" ->
           IF IdTokenAsked /\ OpenidGranted /\ Asked.nonce \in {NoneVal, ""}
           THEN <<"AuthorizeError", "invalid_request", "nonce_missing">>
           ELSE NoFailure
      [] validation = "request" ->
           IF Asked.request \in {NoneVal, ""} THEN NoFailure
           ELSE <<"AuthorizeError", "request_not_supported", "">>
      [] validation = "code_challenge" ->
           IF Asked.code_challenge \notin {NoneVal, ""}
              /\ Asked.code_challenge_method \notin {"plain", "S256"}
           THEN <<"AuthorizeError", "invalid_request", "">>
           ELSE NoFailure

\* The error of the first validation that fails, taking them in this order
RECURSIVE FirstFailure(_)
FirstFailure(order) ==
    IF order = <<>> THEN NoFailure
    ELSE IF FailureOf(Head(order)) # NoFailure THEN FailureOf(Head(order))
    ELSE FirstFailure(Tail(order))

\* The validation error the handler answered with
Observed ==
    IF params = NoParams /\ response.kind \in {"bad_request", "oauth_error"}
    THEN <<response.error.cls,
           IF response.error.cls = "AuthorizeError" THEN response.error.error ELSE "",
           response.error.cause>>
    ELSE NoFailure

\* C6 as claimed: the validations run in the order response type, redirect URI,
\* scope, nonce, request parameter, and the error returned is that of the first
\* one that fails (for a known client and a supported PKCE method).
C6_OrderAsListed ==
    (Entered /\ FailureOf("client") = NoFailure
             /\ FailureOf("code_challenge") = NoFailure) =>
        Observed = FirstFailure(<<"grant", "redirect_uri", "scope", "nonce", "request">>)

\* C6 amended: the validations run in the order client lookup, redirect URI,
\* response type, scope, request parameter, nonce, PKCE method, and the error
\* returned is that of the first one that fails; a request is validated exactly
\* when none fails.
C6_OrderAsCoded ==
    Entered =>
        /\ Observed = FirstFailure(<<"client", "redirect_uri", "grant", "scope",
                                     "request", "nonce", "code_challenge">>)
        /\ Validated <=> Observed = NoFailure
        /\ Observed[1] \in {"ClientIdError", "RedirectUriError"} =>
             response.kind = "bad_request"
        /\ Observed[1] = "AuthorizeError" => response.kind = "oauth_error"

\* A request without a nonce that carries a request parameter is refused for
\* the request parameter.
C6_Witness ==
    /\ Entered
    /\ FailureOf("nonce") # NoFailure
    /\ FailureOf("request") # NoFailure
    /\ Observed = <<"AuthorizeError", "request_not_supported", "">>

-----------------------------------------------------------------------------
(* C7 *)

\* C7: a validated request whose response_type contains id_token and whose
\* final scope contains openid has a non-empty nonce; such a request without a
\* nonce, when no earlier validation fails, fails with invalid_request and
\* cause nonce_missing.  For the response types code and code token a missing
\* nonce never fails validation.
C7_NonceRequired ==
    /\ (Validated /\ IdTokenAsked /\ "openid" \in params.scope) =>
          /\ params.nonce \notin {NoneVal, ""}
          /\ params.nonce = Asked.nonce
    /\ (Entered /\ IdTokenAsked /\ OpenidGranted /\ Asked.nonce \in {NoneVal, ""}
          /\ Trusted(Asked.client_id, Asked.redirect_uri)
          /\ Asked.request \in {NoneVal, ""}) =>
          /\ FailedWith("invalid_request", "nonce_missing")
          /\ response.kind = "oauth_error"
    /\ (Entered /\ Asked.response_type \in {"code", "code token"}) =>
          /\ response.error.cause # "nonce_missing"
          /\ (Asked.nonce \in {NoneVal, ""}
                /\ Trusted(Asked.client_id, Asked.redirect_uri)
                /\ Asked.request \in {NoneVal, ""}
                /\ FailureOf("scope") = NoFailure
                /\ FailureOf("code_challenge") = NoFailure) => Validated

\* A hybrid request without a nonce is refused with cause nonce_missing.
C7_Witness ==
    /\ FailedWith("invalid_request", "nonce_missing")
    /\ Asked.response_type = "code id_token"
    /\ "nonce" \notin DOMAIN request.GET

-----------------------------------------------------------------------------
(* C8 *)

\* C8: the final scope of a validated request is a subset of the scopes
\* configured for the provider, plus, only when github_compat is set, the
\* GitHub scopes that were requested; a request without scopes is given all
\* configured scopes (less offline_access when no code is returned); and when
\* openid is not in the resulting scope while the grant is hybrid or the
\* response_type is id_token or id_token token, validation fails with
\* invalid_scope.
C8_ScopeResolution ==
    /\ Validated =>
         /\ params.scope \subseteq
              Configured \cup (IF request.github_compat
                               THEN Asked.scope \cap {"user", "read:user", "user:email",
                                                      "read:org"}
                               ELSE {})
         /\ params.scope \subseteq RequestedOrAdopted
         /\ Asked.scope = {} =>
              params.scope = Configured \ (IF Asked.response_type \in {"id_token",
                                                                        "id_token token"}
                                           THEN {"offline_access"} ELSE {})
    /\ (Entered /\ Trusted(Asked.client_id, Asked.redirect_uri)
          /\ Asked.response_type \in DOMAIN GrantTable
          /\ ~OpenidGranted
          /\ \/ GrantTable[Asked.response_type] = "hybrid"
             \/ Asked.response_type \in {"id_token", "id_token token"}) =>
         /\ FailedWith("invalid_scope", "scope_openid_missing")
         /\ response.kind = "oauth_error"

\* A scope that is not configured was requested and dropped without an error.
C8_Witness ==
    /\ Validated
    /\ "email" \in Asked.scope
    /\ "email" \notin Configured
    /\ params.scope = {"openid"}

-----------------------------------------------------------------------------
(* C9 *)

\* C9: the final scope of a validated request with response_type id_token or
\* id_token token does not contain offline_access, whether it was requested or
\* adopted from the configured scopes; no error is raised and every other
\* scope that is requested (or adopted) and configured is kept.  With a
\* response type that returns a code, offline_access is kept when it is
\* requested and configured.
C9_OfflineAccess ==
    /\ (Validated /\ Asked.response_type \in {"id_token", "id_token token"}) =>
         /\ "offline_access" \notin params.scope
         /\ (RequestedOrAdopted \cap Configured) \ {"offline_access"} \subseteq params.scope
    /\ (Validated /\ Asked.response_type \in {"code", "code token", "code id_token",
                                              "code id_token token"}
          /\ "offline_access" \in Asked.scope \cap Configured) =>
         "offline_access" \in params.scope

\* An implicit request that asks for offline_access is validated without it.
C9_Witness ==
    /\ Validated
    /\ Asked.response_type = "id_token"
    /\ "offline_access" \in Asked.scope \cap Configured
    /\ params.scope = {"openid"}
    /\ response.kind \notin {"bad_request", "oauth_error"}

-----------------------------------------------------------------------------
(* C10 *)

\* The fulfillment stage answered a validated request.
Fulfilled ==
    /\ Validated
    /\ response.kind \in {"redirect", "autosubmit", "exception"}

\* C10 as claimed: for a validated implicit or hybrid request, whatever its
\* response_mode, the fulfillment stage delivers a success payload that
\* contains token_type, expires_in and state, access_token exactly when the
\* response_type includes token, id_token exactly when it includes id_token,
\* and code exactly when the grant is hybrid.
C10_ImplicitPayload ==
    (Fulfilled /\ params.grant_type \in {"implicit", "hybrid"}) =>
        /\ response.kind \in {"redirect", "autosubmit"}
        /\ {"token_type", "expires_in", "state"} \subseteq DOMAIN response.payload
        /\ "access_token" \in DOMAIN response.payload
             <=> params.response_type \in {"id_token token", "code token",
                                           "code id_token token"}
        /\ "id_token" \in DOMAIN response.payload <=> IdTokenAsked
        /\ "code" \in DOMAIN response.payload <=> params.grant_type = "hybrid"

-----------------------------------------------------------------------------
(* C11 *)

\* The fulfillment stage answered with a success response.
Succeeded == Validated /\ response.kind \in {"redirect", "autosubmit"}

\* C11 as claimed: in every successful fulfillment, in each response mode and
\* each grant, the payload the relying party receives has a state field whose
\* value is the state of the request; an absent or empty state is delivered
\* as a state field with the empty string and is never omitted.
C11_StateRoundTrip ==
    Succeeded =>
        /\ "state" \in DOMAIN response.payload
        /\ response.payload["state"] =
             IF Asked.state \in {NoneVal, ""} THEN "" ELSE Asked.state

-----------------------------------------------------------------------------
(* C12 *)

\* This step is an execution of the fulfillment stage that finds the params in
\* the plan context (the stage alone removes them).
FulfillmentRuns ==
    /\ PLAN_CONTEXT_PARAMS \in DOMAIN plan.context
    /\ PLAN_CONTEXT_PARAMS \notin DOMAIN plan'.context

\* The events this step creates
NewEvents == {events'[i] : i \in (Len(events) + 1) .. Len(events')}

\* C12: when the fulfillment stage runs with params whose prompt contains both
\* none and consent, it answers with the OAuth error consent_required for the
\* request's redirect_uri and state, marks the stage invalid, saves no
\* AuthorizationCode and no AccessToken, and creates no AUTHORIZE_APPLICATION
\* event.
C12_ConsentRequired ==
    [][(FulfillmentRuns
          /\ {"none", "consent"} \subseteq plan.context[PLAN_CONTEXT_PARAMS].prompt) =>
         /\ response'.kind = "oauth_error"
         /\ response'.error.error = "consent_required"
         /\ response'.target = Asked.redirect_uri
         /\ response'.error.state = Asked.state
         /\ plan'.stage = "invalid"
         /\ codes' = codes
         /\ tokens' = tokens
         /\ \A e \in NewEvents : e.action # "authorize_application"]_vars

\* The stage refused a request with prompt=none consent and saved nothing.
C12_Witness ==
    /\ Validated
    /\ {"none", "consent"} \subseteq params.prompt
    /\ response.error.error = "consent_required"
    /\ plan.stage = "invalid"
    /\ codes = {}
    /\ tokens = {}
    /\ Len(events) = 1

-----------------------------------------------------------------------------
(* C13 *)

\* C13: when a validated request has a prompt containing none and the user is
\* not authenticated, the init handler answers with the OAuth error
\* login_required, carrying the request's redirect_uri, state and grant_type,
\* whatever the policy access check and the provider lookup of the dispatch
\* would say, and no flow plan, code or token is created for the request.
C13_LoginRequired ==
    (Validated /\ "none" \in params.prompt /\ ~session.authenticated) =>
        /\ response.kind = "oauth_error"
        /\ response.error.error = "login_required"
        /\ response.target = Asked.redirect_uri
        /\ response.error.redirect_uri = Asked.redirect_uri
        /\ response.error.state = Asked.state
        /\ response.error.grant_type = GrantTable[Asked.response_type]
        /\ plan = NoPlan
        /\ codes = {}
        /\ tokens = {}

\* An anonymous user's request with prompt=none is answered with login_required.
C13_Witness ==
    /\ Validated
    /\ "none" \in params.prompt
    /\ ~session.authenticated
    /\ response.error.error = "login_required"
    /\ response.error.grant_type = "hybrid"

-----------------------------------------------------------------------------
(* C14 *)

\* C14: in every execution of the fulfillment stage that answers with a
\* success response (a redirect or an auto-submitted form), the code in the
\* response is the code of an AuthorizationCode saved in that execution and
\* the access_token in the response is the token of an AccessToken saved in
\* that execution: the rows are saved when the response is emitted.
C14_SavedBeforeResponse ==
    [][(FulfillmentRuns /\ response'.kind \in {"redirect", "autosubmit"}) =>
         /\ "code" \in DOMAIN response'.payload =>
              \E c \in codes' \ codes : c.code = response'.payload["code"]
         /\ "access_token" \in DOMAIN response'.payload =>
              \E t \in tokens' \ tokens : t.token = response'.payload["access_token"]
         /\ "id_token" \in DOMAIN response'.payload =>
              \E t \in tokens' \ tokens : encode(t) = response'.payload["id_token"]]_vars

\* A hybrid response carries a code and an access token, both of saved rows.
C14_Witness ==
    /\ Succeeded
    /\ {"code", "access_token"} \subseteq DOMAIN response.payload
    /\ \E c \in codes : c.code = response.payload["code"]
    /\ \E t \in tokens : t.token = response.payload["access_token"]

-----------------------------------------------------------------------------
(* C15 *)

\* The response includes all of these parameters.
Delivers(keys) == keys \subseteq DOMAIN response.payload

\* C15 as claimed: on every ID token the fulfillment stage builds, c_hash is
\* set if and only if the response includes both code and id_token, and
\* at_hash is set if and only if the response includes both access_token and
\* id_token.
C15_HashesIffDelivered ==
    Succeeded =>
        \A t \in tokens :
            /\ t.id_token.c_hash # NoneVal <=> Delivers({"code", "id_token"})
            /\ t.id_token.at_hash # NoneVal <=> Delivers({"access_token", "id_token"})

\* C15 amended: on every ID token the fulfillment stage builds, c_hash is set
\* if and only if the response includes both code and id_token, and at_hash is
\* set if and only if the response includes access_token (with response_type
\* code token an ID token with at_hash is built and no id_token is delivered);
\* a delivered id_token is the serialization of an ID token on which the hash
\* of the delivered code and of the delivered access_token are already set.
C15_HashClaims ==
    Succeeded =>
        \A t \in tokens :
            /\ t.id_token.c_hash # NoneVal <=> Delivers({"code", "id_token"})
            /\ t.id_token.at_hash # NoneVal <=> Delivers({"access_token"})
            /\ Delivers({"code", "id_token"}) =>
                 t.id_token.c_hash = HashClaim(response.payload["code"])
            /\ Delivers({"access_token"}) =>
                 t.id_token.at_hash = HashClaim(response.payload["access_token"])
            /\ Delivers({"id_token"}) =>
                 response.payload["id_token"] =
                     "jws(" \o t.token \o ", c_hash=" \o t.id_token.c_hash
                            \o ", at_hash=" \o t.id_token.at_hash \o ")"

\* An id_token is delivered with a code and an access token: both hashes are set.
C15_Witness ==
    /\ Succeeded
    /\ Delivers({"code", "access_token", "id_token"})
    /\ \E t \in tokens : t.id_token.c_hash # NoneVal /\ t.id_token.at_hash # NoneVal

-----------------------------------------------------------------------------
(* C16 *)

ChallengeSupplied == Asked.code_challenge \notin {NoneVal, ""}

\* The challenge method of the request: plain when the parameter is absent
MethodAsked ==
    IF "code_challenge_method" \in DOMAIN (IF request.method = "POST"
                                           THEN request.POST ELSE request.GET)
    THEN Asked.code_challenge_method
    ELSE "plain"

\* C16: a validated request with a non-empty code_challenge has a
\* code_challenge_method of plain or S256, plain when the parameter is absent;
\* with any other method the request (when no earlier validation fails) fails
\* with invalid_request.  Every AuthorizationCode saved for a request carries
\* the request's code_challenge and code_challenge_method when a challenge was
\* supplied, and no challenge and no method when none was supplied.
C16_Pkce ==
    /\ (Validated /\ ChallengeSupplied) =>
         /\ params.code_challenge = Asked.code_challenge
         /\ params.code_challenge_method = MethodAsked
         /\ params.code_challenge_method \in {"plain", "S256"}
    /\ (Entered /\ ChallengeSupplied /\ MethodAsked \notin {"plain", "S256"}) =>
         /\ ~Validated
         /\ FirstFailure(<<"client", "redirect_uri", "grant", "scope", "request",
                           "nonce">>) = NoFailure
              => /\ FailedWith("invalid_request", "")
                 /\ response.kind = "oauth_error"
    /\ \A c \in codes :
         IF ChallengeSupplied
         THEN /\ c.code_challenge = Asked.code_challenge
              /\ c.code_challenge_method = MethodAsked
         ELSE /\ c.code_challenge = NoneVal
              /\ c.code_challenge_method = NoneVal

\* A code is saved with the S256 challenge of its request.
C16_Witness ==
    /\ \E c \in codes : c.code_challenge = "E9M" /\ c.code_challenge_method = "S256"
    /\ ChallengeSupplied
    /\ Succeeded

-----------------------------------------------------------------------------
(* C17 *)

\* C17 as claimed: a request whose client_id matches no provider is answered
\* with a 404 by the init handler.
C17_UnknownClient404 ==
    (request # NoRequest /\ ~KnownClient) =>
        /\ response.kind = "not_found"
        /\ response.status = 404

\* C17 amended: a request whose client_id matches no provider is answered by
\* the init handler with the bad-request page (400) of a ClientIdError, and
\* with no redirect, params object or flow plan.  A 404 is the answer only to
\* a request without query parameters and to a request whose URL names no
\* client_id of a provider.
C17_UnknownClient400 ==
    /\ (request # NoRequest /\ ~KnownClient) =>
         /\ params = NoParams
         /\ plan = NoPlan
         /\ IF DOMAIN request.GET = {}
            THEN response.kind = "not_found" /\ response.status = 404
            ELSE /\ response.kind = "bad_request"
                 /\ response.status = 400
                 /\ response.error.cls = "ClientIdError"
    /\ response.kind = "not_found" =>
         \/ DOMAIN request.GET = {}
         \/ "client_id" \notin DOMAIN request.GET
         \/ request.GET["client_id"] \notin Providers

\* A GET that names an unknown client is answered with the bad-request page.
C17_Witness ==
    /\ request.method = "GET"
    /\ "client_id" \in DOMAIN request.GET
    /\ request.GET["client_id"] = "unknown"
    /\ response.kind = "bad_request"
    /\ response.error.cls = "ClientIdError"

-----------------------------------------------------------------------------
(* C18 *)

\* The GET request that carries in its query string the parameters of the body
\* of this POST request
AsGet(req) == HttpRequest("GET", req.POST, EmptyDict, req.github_compat)

\* C18 as claimed: a POST whose body carries a set of parameters is parsed and
\* validated to the same outcome as a GET that carries the same parameters in
\* its query string.
C18_PostAsGet ==
    [][(request = NoRequest /\ request' # NoRequest /\ request'.method = "POST") =>
         \E access \in BOOLEAN, flow_applicable \in BOOLEAN :
            LET g == pre_permission_check(AsGet(request'), session, redirect_uris,
                                          plan, access, flow_applicable)
            IN  /\ response' = g.response
                /\ params' = g.params
                /\ plan' = g.plan]_vars

-----------------------------------------------------------------------------
(* C19 *)

\* The plan context holds no params: the fulfillment stage ran on it before.
ContextSpent == plan # NoPlan /\ PLAN_CONTEXT_PARAMS \notin DOMAIN plan.context

\* C19: the fulfillment stage, invoked on a plan context without params,
\* answers 400 and saves no code and no token; when it runs it removes params
\* and application from the plan context, whatever its outcome, so a second
\* invocation on the same plan context answers 400 and saves nothing: one plan
\* context yields at most one fulfillment.
C19_OneFulfillment ==
    [][/\ ContextSpent =>
            /\ response' = HttpResponseBadRequest
            /\ response'.status = 400
            /\ codes' = codes
            /\ tokens' = tokens
            /\ events' = events
            /\ plan' = plan
       /\ (plan # NoPlan /\ ~ContextSpent) =>
            /\ PLAN_CONTEXT_PARAMS \notin DOMAIN plan'.context
            /\ PLAN_CONTEXT_APPLICATION \notin DOMAIN plan'.context
       /\ Cardinality(codes') <= 1
       /\ Cardinality(tokens') <= 1]_vars

\* The stage was invoked again after a success and answered 400.
C19_Witness ==
    /\ ContextSpent
    /\ plan.stage = "ok"
    /\ codes # {}
    /\ response = HttpResponseBadRequest

-----------------------------------------------------------------------------
(* C20 *)

\* This step is the init handler answering a request of an authenticated user
\* (who has a login event) that is validated and supplies max_age.
HandledWithMaxAge ==
    /\ request' # NoRequest
    /\ request = NoRequest \/ response.kind = "login"
    /\ session'.login_event = session.login_event
    /\ session.authenticated
    /\ params' # NoParams
    /\ params'.max_age # NoInt

\* C20 as claimed: for a request handled with a login event and a max_age that
\* is any non-negative integer, 0 included: if the time since the login event
\* exceeds max_age, the handler (when it does not deny access) stores the
\* current login id under last_login_uid and redirects to authenticate again,
\* and creates no flow plan; if it does not exceed max_age, the max_age check
\* causes no redirect and leaves the session unchanged.
C20_MaxAge ==
    [][HandledWithMaxAge =>
         /\ session.login_age > params'.max_age[1] =>
              /\ response'.kind \in {"login", "denied", "not_found"}
              /\ plan' = NoPlan
              /\ response'.kind = "login" =>
                   session'.last_login_uid = session.login_event
         /\ (session.login_age <= params'.max_age[1]
               /\ "login" \notin params'.prompt) =>
              /\ response'.kind # "login"
              /\ session' = session]_vars

-----------------------------------------------------------------------------
(* C21 *)

\* This step is the init handler answering a validated request of an
\* authenticated user whose prompt contains login and whose max_age, if any,
\* causes no redirect.
HandledWithPromptLogin ==
    /\ request' # NoRequest
    /\ request = NoRequest \/ response.kind = "login"
    /\ session'.login_event = session.login_event
    /\ session.authenticated
    /\ params' # NoParams
    /\ PROMPT_LOGIN \in params'.prompt
    /\ ~(/\ params'.max_age # NoInt
         /\ params'.max_age[1] # 0
         /\ session.login_age > params'.max_age[1])

\* C21: for a request with login in prompt that passes the max_age check, if
\* the session has no last_login_uid or its value equals the current login id,
\* the handler (when it does not deny access) sets last_login_uid to the
\* current login id and redirects to authenticate again without creating a
\* flow plan; with a saved value different from the current login id it goes
\* on to flow planning and leaves last_login_uid, and the session, unchanged.
C21_PromptLogin ==
    [][HandledWithPromptLogin =>
         IF session.last_login_uid = 0 \/ session.last_login_uid = session.login_event
         THEN /\ response'.kind \in {"login", "denied", "not_found"}
              /\ plan' = NoPlan
              /\ response'.kind = "login" =>
                   session' = [session EXCEPT !.last_login_uid = session.login_event]
              /\ response'.kind # "login" => session' = session
         ELSE /\ response'.kind \in {"to_flow", "denied", "not_found"}
              /\ session' = session
              /\ response'.kind = "to_flow" =>
                   /\ plan' # NoPlan
                   /\ plan'.context[PLAN_CONTEXT_PARAMS] = params']_vars

\* A prompt=login request was handed to the flow executor: the saved
\* last_login_uid is the login event that was current when the request was
\* redirected, and the user has logged in again since.
C21_Witness ==
    /\ response.kind = "to_flow"
    /\ plan # NoPlan
    /\ PROMPT_LOGIN \in params.prompt
    /\ session.last_login_uid # 0
    /\ session.last_login_uid # session.login_event

-----------------------------------------------------------------------------
(* C22 *)

\* This step is the first arrival of a validated request whose prompt contains
\* login.
PromptLoginArrives ==
    /\ request = NoRequest
    /\ request' # NoRequest
    /\ params' # NoParams
    /\ PROMPT_LOGIN \in params'.prompt

\* C22 as claimed: over any sequence of authorization requests and
\* re-authentications in one session, every new prompt=login request forces its
\* own re-authentication: it reaches flow planning only after a login event
\* created after the request first arrived, so it is never planned on its first
\* arrival, whatever an earlier request left in last_login_uid.
C22_EveryRequestReauthenticates ==
    [][PromptLoginArrives => response'.kind # "to_flow"]_vars

-----------------------------------------------------------------------------
(* C23 *)

\* The request was redirected to authenticate again by the get handler (which
\* saved the login id of that moment), and the user has logged in again since:
\* there is a new login event, created just now.
Reauthenticated ==
    /\ request # NoRequest
    /\ response.kind = "login"
    /\ session.last_login_uid # 0
    /\ session.login_event # session.last_login_uid
    /\ session.login_age = 0

\* This step is the browser sending the same request again.
Replayed ==
    /\ request' = request
    /\ session'.login_event = session.login_event

\* C23: for a request with prompt=login, with an exceeded max_age, or with
\* both, once the redirect to authenticate again has been followed by a new
\* login event and the request is sent again, the handler goes on to flow
\* planning (or denies access); it does not redirect to authenticate a second
\* time and leaves the session as it is.
C23_ReauthenticationTerminates ==
    [][(Reauthenticated /\ Replayed) =>
         /\ response'.kind \in {"to_flow", "denied"}
         /\ session' = session]_vars

\* A request with both prompt=login and an exceeded max_age was planned after
\* one re-authentication: the saved login id is the one before the current.
C23_Witness ==
    /\ response.kind = "to_flow"
    /\ plan # NoPlan
    /\ PROMPT_LOGIN \in params.prompt
    /\ params.max_age = <<1>>
    /\ session.last_login_uid # 0
    /\ session.login_event = session.last_login_uid + 1

-----------------------------------------------------------------------------
(* C24 *)

\* The number of stages of the plan that satisfy a test
Count(bindings, Test(_)) == Cardinality({i \in DOMAIN bindings : Test(bindings[i])})

IsFulfillmentStage(stage) == stage = OAuthFulfillmentStage

IsInMemoryConsentStage(stage) == stage = InMemoryConsentStage

\* The flow plan the init handler has just handed to the executor
Planned == response.kind = "to_flow" /\ plan # NoPlan

\* C24: in every flow plan the init handler hands to the executor the
\* fulfillment stage is present exactly once and is the last stage; when prompt
\* contains consent and the planned flow has no consent stage, exactly one
\* in-memory consent stage (mode ALWAYS_REQUIRE) is appended and it comes right
\* before the fulfillment stage; when the flow already has a consent stage or
\* prompt lacks consent, the stages before the fulfillment stage are the flow's
\* own and no consent stage is added.
C24_PlanStages ==
    Planned =>
        LET bindings == plan.bindings
            flow == AuthorizationFlow[params.provider]
            own == SubSeq(bindings, 1, Len(flow))
        IN  /\ Len(bindings) >= 1
            /\ bindings[Len(bindings)] = OAuthFulfillmentStage
            /\ Count(bindings, IsFulfillmentStage) = 1
            /\ own = flow
            /\ IF PROMPT_CONSENT \in params.prompt /\ Count(flow, IsConsentStage) = 0
               THEN /\ bindings = flow \o <<InMemoryConsentStage, OAuthFulfillmentStage>>
                    /\ Count(bindings, IsInMemoryConsentStage) = 1
               ELSE /\ bindings = Append(flow, OAuthFulfillmentStage)
                    /\ Count(bindings, IsInMemoryConsentStage) = 0

\* A plan for prompt=consent on a flow without a consent stage: the in-memory
\* consent stage was added.
C24_Witness ==
    /\ Planned
    /\ PROMPT_CONSENT \in params.prompt
    /\ AuthorizationFlow[params.provider] = <<>>
    /\ plan.bindings = <<InMemoryConsentStage, OAuthFulfillmentStage>>

-----------------------------------------------------------------------------
(* C25 *)

\* C25: the plan lets the flow executor skip its interface and go straight to
\* the fulfillment stage if and only if the validated response_mode is query or
\* fragment; for form_post the set of stage types allowed silently is empty, and
\* whatever the mode no other stage type is ever allowed silently.  The plan
\* keeps what was granted while the stage runs.
C25_SilentTypes ==
    (plan # NoPlan /\ params # NoParams) =>
        /\ plan.allowed_silent_types =
             IF params.response_mode \in {QUERY, FRAGMENT}
             THEN {OAuthFulfillmentStage}
             ELSE {}
        /\ params.response_mode \in ResponseModeValues
        /\ response.kind = "autosubmit" => plan.allowed_silent_types = {}

\* A form_post request was planned: nothing may run silently.
C25_Witness ==
    /\ Planned
    /\ params.response_mode = FORM_POST
    /\ plan.allowed_silent_types = {}

-----------------------------------------------------------------------------
(* C26 *)

\* This step is the init handler answering a request with query parameters.
HandlerStep ==
    /\ request' # NoRequest
    /\ request = NoRequest \/ response.kind = "login"
    /\ session'.login_event = session.login_event
    /\ Entered'

\* The single entry auto-provisioning writes for a redirect_uri
Provisioned(uri) == << RedirectURI(STRICT, uri) >>

\* C26: auto-provisioning happens only when the provider's allow-list is empty
\* and the request carries a non-empty redirect_uri; the saved allow-list then
\* becomes exactly the one entry (strict, redirect_uri) and validation goes on
\* with it (the request does not fail with redirect_uri_no_match).  A non-empty
\* allow-list is modified by no request, so a later request with another
\* redirect_uri fails with redirect_uri_no_match.
C26_AutoProvisionOnce ==
    [][/\ \A client \in Providers :
            redirect_uris'[client] # redirect_uris[client] =>
              /\ redirect_uris[client] = << >>
              /\ HandlerStep
              /\ Asked'.client_id = client
              /\ Asked'.redirect_uri # EmptyStr
              /\ redirect_uris'[client] = Provisioned(Asked'.redirect_uri)
       /\ (HandlerStep /\ KnownClient' /\ Asked'.redirect_uri # EmptyStr) =>
            LET client == Asked'.client_id
                uri == Asked'.redirect_uri
            IN  /\ redirect_uris[client] = << >> =>
                     /\ redirect_uris'[client] = Provisioned(uri)
                     /\ ~FailedWithCause("redirect_uri_no_match")'
                /\ (/\ ConfiguredRedirectUris[client] = << >>
                    /\ redirect_uris[client] # << >>
                    /\ redirect_uris[client] # Provisioned(uri)) =>
                     /\ FailedWithCause("redirect_uri_no_match")'
                     /\ redirect_uris' = redirect_uris]_vars

\* After the allow-list of FRESH was auto-provisioned by one request, a later
\* request with another redirect_uri failed with redirect_uri_no_match.
C26_Witness ==
    /\ FailedWithCause("redirect_uri_no_match")
    /\ Asked.client_id = "FRESH"
    /\ Len(redirect_uris["FRESH"]) = 1
    /\ redirect_uris["FRESH"] # Provisioned(Asked.redirect_uri)

-----------------------------------------------------------------------------
(* C27 *)

\* The requests in flight for a client
RacersOf(client) ==
    {p \in Racers : inflight[p].pc # "idle" /\ inflight[p].client_id = client}

\* Two or more requests raced for a client whose allow-list was configured
\* empty, all of them with this redirect_uri, and all of them are done.
RacedWithSameUri(client, uri) ==
    /\ ConfiguredRedirectUris[client] = << >>
    /\ uri # EmptyStr
    /\ Cardinality(RacersOf(client)) >= 2
    /\ \A p \in RacersOf(client) :
         inflight[p].pc = "done" /\ inflight[p].redirect_uri = uri

-----------------------------------------------------------------------------
(* C28 *)

\* C28 as claimed: under concurrent requests against a provider whose
\* allow-list is empty, once all requests are done every request that passed
\* redirect validation has a redirect_uri that the saved allow-list matches; two
\* racing requests with different redirect_uris are not both accepted.
C28_AcceptedMatchesSavedList ==
    (\A p \in Racers : inflight[p].pc \in {"idle", "done"}) =>
        \A p \in Racers :
            (inflight[p].pc = "done" /\ inflight[p].error = NoError) =>
                match_found(redirect_uris[inflight[p].client_id], inflight[p].redirect_uri)

-----------------------------------------------------------------------------
(* C29 *)

\* C29 as claimed: a request that fails validation leaves the provider record
\* unchanged, so the saved allow-list never receives an auto-provisioned entry
\* from a request that was rejected (forbidden scheme, unsupported
\* response_type, invalid scope, missing nonce, request parameter, bad PKCE
\* method).
C29_FailedRequestLeavesProvider ==
    [][(HandlerStep /\ params' = NoParams) => redirect_uris' = redirect_uris]_vars

====
